---- MODULE Spec2Model ----
(***************************************************************************)
(* Model of the comedores dashboard: the top-N + 'Otros' bucketing of the  *)
(* report pages, the multi-value cell parser, the column resolver, the     *)
(* tier classification, the loaders of utils/google_sheets.py and app.py   *)
(* with their header disambiguation, and the st.cache_data entries of the  *)
(* loaders over time.  A behaviour draws one kind of input (Init).  For    *)
(* the pure functions and the page runs one action then runs on it; for    *)
(* kind "session" the behaviour is a sequence of page visits, clock ticks  *)
(* and changes of the remote sheet.                                        *)
(***************************************************************************)
EXTENDS Integers, Sequences, FiniteSets, TLC

VARIABLES
    kind,        \* which input was drawn: "counts" (a value_counts() series), ...
    page,        \* the page module whose function ran ("" before any ran)
    fn,          \* the function that ran ("" before any ran)
    counts,      \* a value_counts() series: <<[name, count], ...>>, descending
    chart_data,  \* create_horizontal_bar_chart: the bars (labels and values)
    colors,      \* create_horizontal_bar_chart: one colour per bar
    tiers,       \* categorize_*: the dicts returned, as sets of series entries
    series,      \* a table column: [name |-> text, values |-> <<cell, ...>>]
    all_options, \* parse_multiple_options: the tokens returned
    df,          \* find_column_in_df: [none |-> is None, columns |-> <<name, ...>>]
    search_terms,\* find_column_in_df: the candidates, in order of preference
    found_col,   \* find_column_in_df: <<>> for None, <<name>> for a column name
    top_n,       \* clean_and_group_data: top_n; clean_and_process_data: max_categories
    cleaned,     \* clean_and_*: the values before the grouping step
    grouped,     \* clean_and_*: the values returned
    all_values,  \* worksheet.get_all_values(): <<header row, data row, ...>>
    unique_headers, \* make_headers_unique: the list returned
    loaded,      \* the loader's return value: [none |-> is None, columns |-> ...]
    raw_pairs,   \* the sheet's cells under the two selected columns, row by row
    by_records,  \* TRUE: get_all_records() succeeded; FALSE: raw-rows fallback
    df_clean,    \* Cruce main: df[[var1_col, var2_col]].dropna()
    crosstab,    \* create_waffle_chart: pd.crosstab(data1, data2), <<>> if not built
    divisors,    \* main: the denominators of the divisions the run executed
    outcome,     \* main: "" before a run; "error" (no table), "filters" (table
                 \* handed to the filters), "no_data" or "rendered" after it
    access,      \* what opening the worksheet meets: "ok" or a failure
    config,      \* the environment variables and the secrets entries
    target,      \* the document id and worksheet name a fetch opened
    now,         \* the clock of the server process, in seconds
    sheet,       \* the remote sheet: [ok |-> a fetch succeeds, version |-> edits so far]
    cache,       \* st.cache_data: loader -> <<>> or the entry [value, at, fetch]
    cleared,     \* the loaders whose entry refresh_data() removed since their last fetch
    fetch_log,   \* the remote fetches made so far: <<[loader, at, cleared], ...>>
    last_call,   \* the last call of a cached loader: [loader, hit, none], <<>> before
    shown,       \* loader -> <<>> or what its page last got: [none, fetch, version, at]
    dataframe,       \* the table handed to an analysis function or to the sidebar filters
    analysis,    \* what the analysis function returned: [none, counts, message]
    filters,     \* filter_dataframe's dict: <<[column, value], ...>>, in insertion order
    selections,  \* the sidebar's selectboxes, in order: [column, all, options, before, selected]
    df_filtered, \* the filtered table: [none, columns, index], index = the rows kept
    cell_counts, \* the positive cells of a crosstab, in the order the loops visit them
    waffle,      \* create_waffle_chart: <<>> or [combinations, values], None if no combination
    available_columns,  \* get_available_columns: <<[key, column], ...>>, in dict order
    variables,   \* the two selectors of the cross-tabulation page: [var1_key, var2_key, ...]
    priorities,  \* create_summary_table: the 'Prioridad' / 'Severidad' column
    markers,     \* the markers of the ranking lines of the analysis text
    dashboards,  \* st.session_state.dashboards of the visualization hub
    submission,  \* the form of the hub's last run: [submitted, titulo, descripcion, url, tags, today]
    filtered_dashboards  \* the dashboards the hub's last run listed, in order

vars == <<kind, page, fn, counts, chart_data, colors, tiers,
          series, all_options, df, search_terms, found_col,
          top_n, cleaned, grouped,
          all_values, unique_headers, loaded,
          raw_pairs, by_records, df_clean, crosstab, divisors, outcome,
          access, config, target,
          now, sheet, cache, cleared, fetch_log, last_call, shown,
          dataframe, analysis, filters, selections, df_filtered,
          cell_counts, waffle, available_columns, variables,
          priorities, markers, dashboards, submission, filtered_dashboards>>

countsVars == <<counts, chart_data, colors, tiers>>
cellVars == <<series, all_options>>
rowVars == <<top_n, cleaned, grouped>>
findVars == <<df, search_terms, found_col>>
headerVars == <<all_values, unique_headers, loaded>>
crossVars == <<raw_pairs, by_records, df_clean, crosstab>>
\* the state of the loading layer and of the page runs that start from it
runVars == <<divisors, outcome>>
configVars == <<config, target>>
sessionVars == <<now, sheet, cache, cleared, fetch_log, last_call, shown>>
\* the state of the analysis functions, the sidebar filters and the pages
\* that work on a loaded table
filterVars == <<filters, selections, df_filtered>>
selectorVars == <<available_columns, variables>>
displayVars == <<priorities, markers>>
hubVars == <<dashboards, submission, filtered_dashboards>>
analysisVars == <<dataframe, analysis, filterVars, cell_counts, waffle,
                  selectorVars, displayVars, hubVars>>
loadVars == <<headerVars, crossVars, runVars, access, configVars, sessionVars, analysisVars>>

---------------------------------------------------------------------------
(* Bounds of the model *)

MaxCats == 16       \* most distinct categories of a drawn series
MaxCount == 2       \* largest count in the tail of a drawn series
MaxMentions == 100  \* largest count of the leading category (tier inputs)
MaxMinor == 3       \* largest count of the second category (tier inputs)
MaxEntries == 2     \* most cells of a column handed to the parser
MaxColumns == 2     \* most columns of a table
MaxTerms == 2       \* most candidates handed to the column resolver
MaxRows == 3        \* most rows of a column handed to the grouping functions
MaxTopN == 2        \* largest top_n / max_categories
MaxHeaders == 3     \* most columns of a raw sheet
MaxDataRows == 1    \* most data rows of a raw sheet
MaxPairs == 2       \* most rows of a sheet handed to the cross-tabulation page
Step == 150         \* seconds between two instants of the clock
MaxTime == 600      \* last instant of the clock
MaxFetches == 3     \* most remote fetches of a behaviour
MaxFrameRows == 2   \* most rows of a drawn table
MaxCells == 9       \* most positive cells of a drawn crosstab
MaxCellCount == 3   \* largest cell of a drawn crosstab
MaxEdits == 1       \* most edits of the remote sheet
MaxDashboards == 6  \* most dashboards of a session of the hub

---------------------------------------------------------------------------
(* Program constants *)

NecesidadesTopN == 6
ProblematicasTopN == 7
EnfoquesTopN == 7
OtrasCategoriasTopN == 8
EtapaVitalTopN == 15

NecesidadesHighPct == 10
NecesidadesMediumPct == 3
ProblematicasCriticalPct == 15
ProblematicasHighPct == 8
ProblematicasMediumPct == 3

DEFAULT_CACHE_TTL == 300
SecureCacheTTL == 300
DEFAULT_SHEET_ID == "1fbs-J474JbvV3USg5aQlLUW9sNqkBjcd63qBU1nJeeI"
DEFAULT_WORKSHEET_NAME == "Respuestas de formulario 1"
OTROS == "Otros"
GREY == "#757575"

EnfoquesBaseColors == 7     \* Blues_r[:7]
OtrasBaseColors == 8        \* Purples_r[:8]
WaffleTopN == 6
MaxCombinations == 8
MinRemainder == 2
GridBlocks == 100
SequentialPaletteLen == 9
AnalysisTopN == 8

---------------------------------------------------------------------------
(* pandas Series helpers *)

Min(a, b) == IF a <= b THEN a ELSE b

\* Series.head(n)
head(s, n) == SubSeq(s, 1, Min(n, Len(s)))

\* Series.iloc[n:]
ilocFrom(s, n) == SubSeq(s, n + 1, Len(s))

\* Series.sum() of a counts series
RECURSIVE sum(_)
sum(s) == IF s = <<>> THEN 0 ELSE Head(s).count + sum(Tail(s))

\* a variant with a strict comparison
PctAtLeast_Strict(count, total, th) == 100 * count > th * total

\* percentage = (count / total) * 100 ; percentage >= th.  The floating-point
\* comparison agrees with the exact one, 100*count >= th*total, for the
\* thresholds 3, 8, 10 and 15 and every total up to 2,000,000.
PctAtLeast(count, total, th) == 100 * count >= th * total

---------------------------------------------------------------------------
(* Frequency aggregation: tiers by fixed percentage thresholds *)

\* categorize_necesidades / create_summary_table / chart colours: if pct >= 10
\* ... elif pct >= 3 ... else
NecesidadesTier(count, total) ==
    IF PctAtLeast(count, total, NecesidadesHighPct) THEN "high"
    ELSE IF PctAtLeast(count, total, NecesidadesMediumPct) THEN "medium"
    ELSE "low"

\* categorize_problematicas: if >= 15 ... elif >= 8 ... elif >= 3 ... else
ProblematicasTier(count, total) ==
    IF PctAtLeast(count, total, ProblematicasCriticalPct) THEN "critical"
    ELSE IF PctAtLeast(count, total, ProblematicasHighPct) THEN "high"
    ELSE IF PctAtLeast(count, total, ProblematicasMediumPct) THEN "medium"
    ELSE "low"

Entries(s) == {s[i] : i \in 1..Len(s)}

categorize_necesidades(necesidades_counts) ==
    LET total == sum(necesidades_counts)
        In(t) == {e \in Entries(necesidades_counts) :
                     NecesidadesTier(e.count, total) = t}
    IN  [high |-> In("high"), medium |-> In("medium"), low |-> In("low")]

categorize_problematicas(problematicas_counts) ==
    LET total == sum(problematicas_counts)
        In(t) == {e \in Entries(problematicas_counts) :
                     ProblematicasTier(e.count, total) = t}
    IN  [critical |-> In("critical"), high |-> In("high"),
         medium |-> In("medium"), low |-> In("low")]

---------------------------------------------------------------------------
(* Top-N + 'Otros' bucketing of the chart functions *)

\* a variant that appends 'Otros' already when len(counts) == n
TopNPlusOtros_Inclusive(s, n) ==
    IF Len(s) >= n
    THEN head(s, n) \o <<[name |-> OTROS, count |-> sum(ilocFrom(s, n))]>>
    ELSE head(s, n)

\* top = counts.head(n); if len(counts) > n: concat([top, Series([tail sum],
\* index=['Otros'])]) else top
TopNPlusOtros(s, n) ==
    IF Len(s) > n
    THEN head(s, n) \o <<[name |-> OTROS, count |-> sum(ilocFrom(s, n))]>>
    ELSE head(s, n)

\* plotly sequential palette entry i (0-based)
PaletteColor(palette, i) == palette \o "[" \o ToString(i) \o "]"

NecesidadesColor(e, total) ==
    IF e.name = OTROS THEN GREY
    ELSE IF NecesidadesTier(e.count, total) = "high" THEN "#F44336"
    ELSE IF NecesidadesTier(e.count, total) = "medium" THEN "#FF9800"
    ELSE "#FFC107"

ProblematicasColor(e, total) ==
    IF e.name = OTROS THEN GREY
    ELSE IF ProblematicasTier(e.count, total) = "critical" THEN "#D32F2F"
    ELSE IF ProblematicasTier(e.count, total) = "high" THEN "#F57C00"
    ELSE IF ProblematicasTier(e.count, total) = "medium" THEN "#FBC02D"
    ELSE "#9E9E9E"

\* colors.append(grey if name == 'Otros' else base_colors[i % len(base_colors)])
GradientColor(e, i, palette, nbase) ==
    IF e.name = OTROS THEN GREY ELSE PaletteColor(palette, (i - 1) % nbase)

Ran(p, f) == page' = p /\ fn' = f

NecesidadesChart ==
    /\ kind = "counts" /\ fn = ""
    /\ Ran("NECESIDADES", "create_horizontal_bar_chart")
    /\ chart_data' = TopNPlusOtros(counts, NecesidadesTopN)
    /\ colors' = [i \in 1..Len(chart_data') |->
                    NecesidadesColor(chart_data'[i], sum(counts))]
    /\ UNCHANGED <<kind, counts, tiers, cellVars, findVars, rowVars, loadVars>>

ProblematicasChart ==
    /\ kind = "counts" /\ fn = ""
    /\ Ran("PROBLEMATICAS", "create_horizontal_bar_chart")
    /\ chart_data' = TopNPlusOtros(counts, ProblematicasTopN)
    /\ colors' = [i \in 1..Len(chart_data') |->
                    ProblematicasColor(chart_data'[i], sum(counts))]
    /\ UNCHANGED <<kind, counts, tiers, cellVars, findVars, rowVars, loadVars>>

EnfoquesChart ==
    /\ kind = "counts" /\ fn = ""
    /\ Ran("ENFOQUES", "create_horizontal_bar_chart")
    /\ chart_data' = TopNPlusOtros(counts, EnfoquesTopN)
    /\ colors' = [i \in 1..Len(chart_data') |->
                    GradientColor(chart_data'[i], i, "Blues_r", EnfoquesBaseColors)]
    /\ UNCHANGED <<kind, counts, tiers, cellVars, findVars, rowVars, loadVars>>

OtrasCategoriasChart ==
    /\ kind = "counts" /\ fn = ""
    /\ Ran("OTRAS_CATEGORIAS", "create_horizontal_bar_chart")
    /\ chart_data' = TopNPlusOtros(counts, OtrasCategoriasTopN)
    /\ colors' = [i \in 1..Len(chart_data') |->
                    GradientColor(chart_data'[i], i, "Purples_r", OtrasBaseColors)]
    /\ UNCHANGED <<kind, counts, tiers, cellVars, findVars, rowVars, loadVars>>

\* top_etapas = etapa_counts.head(15): no 'Otros' entry is appended
EtapaVitalChart ==
    /\ kind = "counts" /\ fn = ""
    /\ Ran("ETAPA_VITAL", "create_horizontal_bar_chart")
    /\ chart_data' = head(counts, EtapaVitalTopN)
    /\ colors' = [i \in 1..Min(Len(chart_data'), SequentialPaletteLen) |->
                    PaletteColor("YlOrRd_r", i - 1)]
    /\ UNCHANGED <<kind, counts, tiers, cellVars, findVars, rowVars, loadVars>>

CategorizeNecesidades ==
    /\ kind = "counts" /\ fn = ""
    /\ Ran("NECESIDADES", "categorize_necesidades")
    /\ tiers' = categorize_necesidades(counts)
    /\ UNCHANGED <<kind, counts, chart_data, colors, cellVars, findVars, rowVars, loadVars>>

CategorizeProblematicas ==
    /\ kind = "counts" /\ fn = ""
    /\ Ran("PROBLEMATICAS", "categorize_problematicas")
    /\ tiers' = categorize_problematicas(counts)
    /\ UNCHANGED <<kind, counts, chart_data, colors, cellVars, findVars, rowVars, loadVars>>

---------------------------------------------------------------------------
(* Strings.  A text is a sequence of atoms: an atom is one separator or    *)
(* whitespace character, or a run of other characters.  The literals the   *)
(* code compares with ('nan', 'none', '') are single atoms (or the empty   *)
(* text) and no text of the model spells one of them with several atoms,   *)
(* so equality of texts is equality of the strings they spell.  A missing  *)
(* cell (pandas NaN) is the value NaN below, which is not a text.          *)

NaN == <<"<NaN>">>

IsSpace(a) == a \in {" ", "\t", "\n"}

\* str.lower(), atom by atom
LowerAtom(a) ==
    CASE a = "NaN" -> "nan"
      [] a = "NAN" -> "nan"
      [] a = "None" -> "none"
      [] a = "NONE" -> "none"
      [] a = "Otros" -> "otros"
      [] a = "Si" -> "si"
      [] a = "A" -> "a"
      [] a = "NECESIDAD" -> "necesidad"
      [] a = "Necesidad" -> "necesidad"
      [] a = "ES" -> "es"
      [] a = "BARRIO" -> "barrio"
      [] a = "Barrio" -> "barrio"
      [] a = "COMUNA" -> "comuna"
      [] a = "NODO" -> "nodo"
      [] a = "NICHO" -> "nicho"
      [] a = "NOMBRE" -> "nombre"
      [] a = "DEL" -> "del"
      [] a = "COMEDOR" -> "comedor"
      [] a = "Sector" -> "sector"
      [] a = "De qué" -> "de qué"
      [] a = "COMERCIAL" -> "comercial"
      [] a = "B" -> "b"
      [] OTHER -> a

lower(t) == [i \in 1..Len(t) |-> LowerAtom(t[i])]

\* str.strip()
strip(t) ==
    LET solid == {i \in 1..Len(t) : ~IsSpace(t[i])}
    IN  IF solid = {} THEN <<>>
        ELSE SubSeq(t, CHOOSE i \in solid : \A j \in solid : i <= j,
                       CHOOSE i \in solid : \A j \in solid : i >= j)

\* str.split(sep), for one or several one-character separators: always at
\* least one piece, empty pieces kept
RECURSIVE split(_, _)
split(t, seps) ==
    LET at == {i \in 1..Len(t) : t[i] \in seps}
    IN  IF at = {} THEN <<t>>
        ELSE LET k == CHOOSE i \in at : \A j \in at : i <= j
             IN  <<SubSeq(t, 1, k - 1)>> \o split(SubSeq(t, k + 1, Len(t)), seps)

\* needle in haystack (a contiguous run of atoms)
Contains(haystack, needle) ==
    \E i \in 0..(Len(haystack) - Len(needle)) :
        SubSeq(haystack, i + 1, i + Len(needle)) = needle

\* Series.dropna()
NotNa(c) == c # NaN
dropna(values) == SelectSeq(values, NotNa)

---------------------------------------------------------------------------
(* Multi-value parser *)

\* a variant that does not strip the pieces
EntryOptions_NoStrip(entry) ==
    IF entry = NaN \/ entry = <<>> \/ lower(entry) \in {<<"nan">>, <<"none">>}
    THEN <<>>
    ELSE LET options == split(entry, {","})
             Keep(opt) == opt # <<>> /\ lower(opt) \notin {<<"nan">>, <<"none">>, <<>>}
         IN  SelectSeq(options, Keep)

\* a variant that compares with 'nan' and 'None' without lower()
EntryOptions_CaseSensitive(entry) ==
    IF entry = NaN \/ entry = <<>> \/ entry \in {<<"nan">>, <<"None">>}
    THEN <<>>
    ELSE LET pieces == split(entry, {","})
             options == [i \in 1..Len(pieces) |-> strip(pieces[i])]
             Keep(opt) == opt # <<>> /\ opt \notin {<<"nan">>, <<"None">>, <<>>}
         IN  SelectSeq(options, Keep)

\* the tokens one entry contributes (the body of the for loop)
EntryOptions(entry) ==
    IF entry = NaN \/ entry = <<>> \/ lower(entry) \in {<<"nan">>, <<"none">>}
    THEN <<>>
    ELSE LET pieces == split(entry, {","})
             options == [i \in 1..Len(pieces) |-> strip(pieces[i])]
             Keep(opt) == opt # <<>> /\ lower(opt) \notin {<<"nan">>, <<"none">>, <<>>}
         IN  SelectSeq(options, Keep)

RECURSIVE ExtendAll(_)
ExtendAll(entries) ==
    IF entries = <<>> THEN <<>>
    ELSE EntryOptions(Head(entries)) \o ExtendAll(Tail(entries))

parse_multiple_options(data_series) == ExtendAll(dropna(data_series))

ReportPages ==
    {"NECESIDADES", "PROBLEMATICAS", "ENFOQUES", "OTRAS_CATEGORIAS", "ETAPA_VITAL"}

\* the five report pages carry the same parse_multiple_options
ParseMultipleOptions ==
    /\ kind = "cells" /\ fn = ""
    /\ \E p \in ReportPages : Ran(p, "parse_multiple_options")
    /\ all_options' = parse_multiple_options(series.values)
    /\ UNCHANGED <<kind, series, countsVars, findVars, rowVars, loadVars>>

---------------------------------------------------------------------------
(* Column resolver *)

\* the index of the first element of a non-empty set of indices
First(S) == CHOOSE i \in S : \A j \in S : i <= j

\* a variant whose substring test does not lower-case
find_column_in_df_CaseSensitive(d, terms) ==
    IF d.none THEN <<>>
    ELSE LET cols == d.columns
             exact == {t \in 1..Len(terms) :
                          \E c \in 1..Len(cols) : cols[c] = terms[t]}
             partial == {c \in 1..Len(cols) :
                            \E t \in 1..Len(terms) : Contains(cols[c], terms[t])}
         IN  IF exact # {} THEN <<terms[First(exact)]>>
             ELSE IF partial # {} THEN <<cols[First(partial)]>>
             ELSE <<>>

\* a variant that runs the substring loop before the exact loop
find_column_in_df_PartialFirst(d, terms) ==
    IF d.none THEN <<>>
    ELSE LET cols == d.columns
             exact == {t \in 1..Len(terms) :
                          \E c \in 1..Len(cols) : cols[c] = terms[t]}
             partial == {c \in 1..Len(cols) :
                            \E t \in 1..Len(terms) :
                                Contains(lower(cols[c]), lower(terms[t]))}
         IN  IF partial # {} THEN <<cols[First(partial)]>>
             ELSE IF exact # {} THEN <<terms[First(exact)]>>
             ELSE <<>>

find_column_in_df(d, terms) ==
    IF d.none THEN <<>>
    ELSE LET cols == d.columns
             exact == {t \in 1..Len(terms) :
                          \E c \in 1..Len(cols) : cols[c] = terms[t]}
             partial == {c \in 1..Len(cols) :
                            \E t \in 1..Len(terms) :
                                Contains(lower(cols[c]), lower(terms[t]))}
         IN  IF exact # {} THEN <<terms[First(exact)]>>
             ELSE IF partial # {} THEN <<cols[First(partial)]>>
             ELSE <<>>

\* the cross-tabulation page and the bar-chart page carry the same resolver
FindColumnInDf ==
    /\ kind = "columns" /\ fn = ""
    /\ \E p \in {"CRUCE", "SANKEY"} : Ran(p, "find_column_in_df")
    /\ found_col' = find_column_in_df(df, search_terms)
    /\ UNCHANGED <<kind, df, search_terms, countsVars, cellVars, rowVars, loadVars>>

---------------------------------------------------------------------------
(* Row-level cleaning and grouping (cross-tabulation and bar-chart pages) *)

SIN_RESPUESTA == <<"Sin respuesta">>

\* series.astype(str).str.strip().replace(['nan', 'None', '', 'NaN'],
\* 'Sin respuesta'), then .replace({'Si': 'Sí', 'si': 'Sí', 'SI': 'Sí', ...})
CleanCell(c) ==
    LET str == IF c = NaN THEN <<"nan">> ELSE c
        stripped == strip(str)
        filled == IF stripped \in {<<"nan">>, <<"None">>, <<>>, <<"NaN">>}
                  THEN SIN_RESPUESTA ELSE stripped
    IN  IF filled \in {<<"Si">>, <<"si">>, <<"SI">>} THEN <<"Sí">>
        ELSE IF filled \in {<<"No">>, <<"no">>, <<"NO">>} THEN <<"No">>
        ELSE filled

CleanValues(values) == [i \in 1..Len(values) |-> CleanCell(values[i])]

IsInjective(s) == \A i, j \in 1..Len(s) : s[i] = s[j] => i = j

Distinct(values) == {values[i] : i \in 1..Len(values)}

Count(values, v) == Cardinality({i \in 1..Len(values) : values[i] = v})

\* value_counts().head(k).index: k categories (all of them if there are
\* fewer) none of which has a smaller count than a category left out; the
\* order among equal counts is the sort's, so every such choice is possible
TopCategories(values, k) ==
    {T \in SUBSET Distinct(values) :
        /\ Cardinality(T) = Min(k, Cardinality(Distinct(values)))
        /\ \A a \in T, b \in Distinct(values) \ T :
              Count(values, a) >= Count(values, b)}

\* cleaned.apply(lambda x: x if x in top_categories else 'Otros')
ApplyTop(values, top) ==
    [i \in 1..Len(values) |-> IF values[i] \in top THEN values[i] ELSE <<OTROS>>]

\* len(item)
AtomLen(a) == IF a = "Sí" THEN 2 ELSE Len(a)
RECURSIVE StrLen(_)
StrLen(t) == IF t = <<>> THEN 0 ELSE AtomLen(Head(t)) + StrLen(Tail(t))

\* str.upper(), atom by atom
UpperAtom(a) ==
    CASE a = "Temas" -> "TEMAS"
      [] a = "Actividades" -> "ACTIVIDADES"
      [] a = "sector" -> "SECTOR"
      [] OTHER -> a

upper(t) == [i \in 1..Len(t) |-> UpperAtom(t[i])]

\* the items kept of one response of a multi-answer column
ResponseItems(response) ==
    IF response # <<>> /\ response # SIN_RESPUESTA
    THEN LET pieces == split(response, {",", ";", "\n"})
             items == [i \in 1..Len(pieces) |-> strip(pieces[i])]
             Keep(item) == item # <<>> /\ StrLen(item) > 2
         IN  SelectSeq(items, Keep)
    ELSE <<SIN_RESPUESTA>>

RECURSIVE AllResponses(_)
AllResponses(values) ==
    IF values = <<>> THEN <<>>
    ELSE ResponseItems(Head(values)) \o AllResponses(Tail(values))

\* value_counts = cleaned.value_counts(); if len(value_counts) <= top_n:
\* return cleaned; else every value outside head(top_n) becomes 'Otros'.
\* The possible results, one per order of equal counts.
GroupTopN(values, n) ==
    IF Cardinality(Distinct(values)) <= n THEN {values}
    ELSE {ApplyTop(values, top) : top \in TopCategories(values, n)}

\* a variant that keeps head(max_categories) instead of head(max_categories - 1)
GroupLessFrequent_KeepsN(values, max_categories) ==
    IF Cardinality(Distinct(values)) > max_categories
    THEN {ApplyTop(values, top) : top \in TopCategories(values, max_categories)}
    ELSE {values}

\* if len(value_counts) > max_categories: every value outside
\* head(max_categories - 1) becomes 'Otros' (the tail's count is positive)
GroupLessFrequent(values, max_categories) ==
    IF Cardinality(Distinct(values)) > max_categories
    THEN {ApplyTop(values, top) : top \in TopCategories(values, max_categories - 1)}
    ELSE {values}

\* clean_and_group_data(series, top_n)
CleanAndGroupData ==
    /\ kind = "rows" /\ fn = ""
    /\ Ran("CRUCE", "clean_and_group_data")
    /\ IF series.values = <<>>
       THEN cleaned' = <<>> /\ grouped' = series.values
       ELSE /\ cleaned' = CleanValues(series.values)
            /\ grouped' \in GroupTopN(cleaned', top_n)
    /\ UNCHANGED <<kind, series, top_n, countsVars, findVars, all_options, loadVars>>

\* clean_and_process_data(series, max_categories)
CleanAndProcessData ==
    /\ kind = "rows" /\ fn = ""
    /\ Ran("SANKEY", "clean_and_process_data")
    /\ IF series.values = <<>>
       THEN cleaned' = <<>> /\ grouped' = <<>>
       ELSE /\ cleaned' =
                 IF \/ Contains(upper(series.name), <<"TEMAS">>)
                    \/ Contains(upper(series.name), <<"ACTIVIDADES">>)
                 THEN AllResponses(CleanValues(series.values))
                 ELSE CleanValues(series.values)
            /\ grouped' \in GroupLessFrequent(cleaned', top_n)
    /\ UNCHANGED <<kind, series, top_n, countsVars, findVars, all_options, loadVars>>

---------------------------------------------------------------------------
(* The loading layer: header disambiguation and the raw-rows fallback of   *)
(* load_data_from_sheets.  A header is a string; a cell is a text.         *)

\* the loop of make_headers_unique over the headers left, with the
\* header_counts dict and the unique_headers list built so far
RECURSIVE make_headers_unique_loop(_, _, _)
make_headers_unique_loop(headers, header_counts, result) ==
    IF headers = <<>> THEN result
    ELSE LET header == Head(headers) IN
         IF header \in DOMAIN header_counts
         THEN LET c == header_counts[header] + 1 IN
              make_headers_unique_loop(Tail(headers),
                  [header_counts EXCEPT ![header] = c],
                  Append(result, header \o "_" \o ToString(c)))
         ELSE make_headers_unique_loop(Tail(headers),
                  header_counts @@ (header :> 0),
                  Append(result, header))

\* a variant numbering the repeats from 2
make_headers_unique_FromTwo(headers) ==
    [i \in 1..Len(headers) |->
        LET k == Cardinality({j \in 1..(i - 1) : headers[j] = headers[i]})
        IN  IF k = 0 THEN headers[i]
            ELSE headers[i] \o "_" \o ToString(k + 1)]

make_headers_unique(headers) == make_headers_unique_loop(headers, <<>>, <<>>)

\* the loader's no-data sentinel
None == [none |-> TRUE, columns |-> <<>>]

\* pd.DataFrame(rows, columns=names): the i-th name labels the i-th cell
\* of every row
DataFrame(data, columns) ==
    [i \in 1..Len(columns) |->
        [name |-> columns[i],
         values |-> [r \in 1..Len(data) |-> data[r][i]]]]

\* .str.strip() and .replace(['', 'nan', 'None'], None) on one cell
CleanText(cell) ==
    IF strip(cell) \in {<<>>, <<"nan">>, <<"None">>} THEN NaN ELSE strip(cell)

\* clean_dataframe(df): dropna(how='all'), then every object column is
\* stripped and blanked; a label borne by two columns selects a frame, whose
\* .str raises, and the bare except leaves those columns as they are
clean_dataframe(columns) ==
    LET n == IF columns = <<>> THEN 0 ELSE Len(columns[1].values)
        NotAllNa(r) == \E i \in 1..Len(columns) : NotNa(columns[i].values[r])
        kept == SelectSeq([r \in 1..n |-> r], NotAllNa)
        Shared(i) == \E j \in 1..Len(columns) :
                        j # i /\ columns[j].name = columns[i].name
    IN  [i \in 1..Len(columns) |->
            [name |-> columns[i].name,
             values |-> [k \in 1..Len(kept) |->
                            IF Shared(i) THEN columns[i].values[kept[k]]
                            ELSE CleanText(columns[i].values[kept[k]])]]]

\* the except branch of load_data_from_sheets on get_all_values()
LoadRawRows(values) ==
    IF values = <<>> THEN None
    ELSE LET frame == DataFrame(Tail(values), make_headers_unique(Head(values)))
         IN  IF Tail(values) = <<>> \/ Head(values) = <<>> THEN None
             ELSE [none |-> FALSE, columns |-> clean_dataframe(frame)]

HasDuplicates(headers) == \E i, j \in 1..Len(headers) : i # j /\ headers[i] = headers[j]

\* make_headers_unique(headers) on a header row
MakeHeadersUnique ==
    /\ kind = "headers" /\ fn = ""
    /\ all_values # <<>>
    /\ Ran("SHEETS", "make_headers_unique")
    /\ unique_headers' = make_headers_unique(Head(all_values))
    /\ UNCHANGED <<kind, all_values, loaded, countsVars, cellVars, findVars, rowVars,
                   crossVars, runVars, access, configVars, sessionVars, analysisVars>>

\* load_data_from_sheets() when get_all_records() raised 'the header row in
\* the worksheet is not unique'
LoadDataFromRawRows ==
    /\ kind = "headers" /\ fn = ""
    /\ IF all_values = <<>> THEN TRUE ELSE HasDuplicates(Head(all_values))
    /\ Ran("SHEETS", "load_data_from_sheets")
    /\ unique_headers' = IF all_values = <<>> THEN <<>>
                         ELSE make_headers_unique(Head(all_values))
    /\ loaded' = LoadRawRows(all_values)
    /\ UNCHANGED <<kind, all_values, countsVars, cellVars, findVars, rowVars,
                   crossVars, runVars, access, configVars, sessionVars, analysisVars>>

---------------------------------------------------------------------------
(* One run of a page's main() after the load: the emptiness checks, then   *)
(* the divisions of the analysis and of the rendering                      *)

\* df.empty / valid_data.empty / df_clean.empty
NoRows(rows) == rows = <<>>

\* a variant that never finds the token list empty
NoTokens_Never(tokens) == FALSE

\* 'if not all_necesidades'
NoTokens(tokens) == tokens = <<>>

\* a division by the number called what
Over(what, n) == [of |-> what, by |-> n]

\* the early return of a run: nothing analysed, nothing divided
NoData == outcome' = "no_data" /\ divisors' = {}

\* pd.Series(tokens).value_counts(): one entry per distinct token, by
\* descending count, in any order among equal counts
ValueCounts(tokens) ==
    LET cats == Distinct(tokens)
        n == Cardinality(cats)
    IN  {[i \in 1..n |-> [name |-> order[i], count |-> Count(tokens, order[i])]] :
            order \in {o \in [1..n -> cats] :
                         /\ IsInjective(o)
                         /\ \A i \in 1..(n - 1) :
                               Count(tokens, o[i]) >= Count(tokens, o[i + 1])}}

\* main() of a report page on a filtered table whose survey column was
\* found: analyze_*, then the metrics, the chart, the summary table and the
\* coverage rate
ReportMain ==
    /\ kind = "cells" /\ fn = ""
    /\ \E p \in ReportPages :
          LET valid_data == dropna(series.values)
              tokens == parse_multiple_options(valid_data)
          IN  /\ Ran(p, "main")
              /\ IF NoRows(series.values) \/ NoRows(valid_data) \/ NoTokens(tokens)
                 THEN NoData /\ UNCHANGED <<counts, tiers>>
                 ELSE /\ counts' \in ValueCounts(tokens)
                      /\ tiers' = CASE p = "NECESIDADES" -> categorize_necesidades(counts')
                                    [] p = "PROBLEMATICAS" -> categorize_problematicas(counts')
                                    [] OTHER -> <<>>
                      /\ outcome' = "rendered"
                      /\ divisors' = { Over("total_comedores", Len(series.values)),
                                       Over("comedores_con", Len(valid_data)),
                                       Over("total_menciones", Len(tokens)),
                                       Over("counts.sum()", sum(counts')) }
    /\ UNCHANGED <<kind, series, all_options, chart_data, colors, findVars, rowVars,
                   headerVars, crossVars, access, configVars, sessionVars, analysisVars>>

---------------------------------------------------------------------------
(* The cross-tabulation page, from the sheet's cells to the crosstab *)

\* gspread's numericise on a text cell: float('nan') parses, so the cell
\* becomes a missing number; the other texts of the model stay texts
numericise(cell) ==
    IF strip(cell) \in {<<"nan">>, <<"NaN">>} THEN NaN ELSE cell

\* one cell of the table load_data_from_sheets returns: get_all_records()
\* numericises, get_all_values() gives the text; then clean_dataframe
LoadedCell(cell, records) ==
    IF records
    THEN CleanText(IF numericise(cell) = NaN THEN <<"nan">> ELSE cell)
    ELSE CleanText(cell)

LoadedPairs(pairs, records) ==
    [r \in 1..Len(pairs) |->
        <<LoadedCell(pairs[r][1], records), LoadedCell(pairs[r][2], records)>>]

\* df[[var1_col, var2_col]].dropna()
DropNaPairs(pairs) ==
    LET Valid(row) == NotNa(row[1]) /\ NotNa(row[2]) IN SelectSeq(pairs, Valid)

Column(pairs, c) == [r \in 1..Len(pairs) |-> pairs[r][c]]

\* pd.crosstab(data1, data2): one cell per pair of categories, holding the
\* number of rows with that pair
Crosstab(data1, data2) ==
    [cell \in Distinct(data1) \X Distinct(data2) |->
        Cardinality({r \in 1..Len(data1) : <<data1[r], data2[r]>> = cell})]

\* round((count / total) * 100): Python rounds a tie to the even neighbour
RoundPct(count, total) ==
    LET q == (100 * count) \div total
        twice == 2 * ((100 * count) % total)
    IN  IF twice < total THEN q
        ELSE IF twice > total THEN q + 1
        ELSE IF q % 2 = 0 THEN q ELSE q + 1

\* combinations.sort(key=lambda x: x[1], reverse=True): stable, descending
RECURSIVE SortByPercentage(_)
SortByPercentage(combos) ==
    IF combos = <<>> THEN <<>>
    ELSE LET rest == SortByPercentage(Tail(combos))
             k == Cardinality({i \in 1..Len(rest) :
                                  rest[i].percentage > Head(combos).percentage})
         IN  SubSeq(rest, 1, k) \o <<Head(combos)>> \o SubSeq(rest, k + 1, Len(rest))

RECURSIVE SumSeq(_)
SumSeq(s) == IF s = <<>> THEN 0 ELSE Head(s) + SumSeq(Tail(s))

\* the positive cells of a crosstab, in an order of its cells
RECURSIVE PositiveCells(_, _)
PositiveCells(ct, cells) ==
    IF cells = {} THEN <<>>
    ELSE LET cell == CHOOSE c \in cells : TRUE
         IN  (IF ct[cell] > 0 THEN <<ct[cell]>> ELSE <<>>)
             \o PositiveCells(ct, cells \ {cell})

\* create_waffle_chart after the crosstab, from its positive cells: the
\* combinations of at least 1 %, the MaxCombinations largest, their values and
\* the 'Otras combinaciones' remainder; None without a combination
WaffleBlocks(cells) ==
    LET total == SumSeq(cells)
        all == [i \in 1..Len(cells) |->
                   [percentage |-> RoundPct(cells[i], total), count |-> cells[i]]]
        frequent == SelectSeq(all, LAMBDA c : c.percentage >= 1)
        combinations == head(SortByPercentage(frequent), MaxCombinations)
        blocks == [i \in 1..Len(combinations) |-> combinations[i].percentage]
        total_pct == SumSeq(blocks)
    IN  IF combinations = <<>> THEN [none |-> TRUE, combinations |-> <<>>, values |-> <<>>]
        ELSE [none |-> FALSE, combinations |-> combinations,
              values |-> IF total_pct < 100 /\ 100 - total_pct >= MinRemainder
                         THEN Append(blocks, 100 - total_pct) ELSE blocks]

\* main() of the cross-tabulation page with pywaffle installed and two
\* columns selected, create_waffle_chart included
CruceMain ==
    /\ kind = "crosstab" /\ fn = ""
    /\ LET table == LoadedPairs(raw_pairs, by_records)
           valid == DropNaPairs(table)
       IN  IF NoRows(table)
           THEN /\ Ran("CRUCE", "main") /\ NoData
                /\ UNCHANGED <<df_clean, crosstab, waffle>>
           ELSE /\ df_clean' = valid
                /\ IF NoRows(valid)
                   THEN Ran("CRUCE", "main") /\ NoData /\ UNCHANGED <<crosstab, waffle>>
                   ELSE /\ Ran("CRUCE", "create_waffle_chart")
                        /\ \E data1 \in GroupTopN(CleanValues(Column(valid, 1)), WaffleTopN),
                              data2 \in GroupTopN(CleanValues(Column(valid, 2)), WaffleTopN) :
                              crosstab' = Crosstab(data1, data2)
                        /\ waffle' = WaffleBlocks(PositiveCells(crosstab', DOMAIN crosstab'))
                        /\ outcome' = "rendered"
                        /\ divisors' = {Over("total", Len(valid))}
    /\ UNCHANGED <<kind, raw_pairs, by_records, countsVars, cellVars, findVars,
                   rowVars, headerVars, access, configVars, sessionVars,
                   dataframe, analysis, filterVars, cell_counts,
                   selectorVars, displayVars, hubVars>>

\* create_waffle_chart from the crosstab on: the blocks of the 10 x 10 grid
CreateWaffleChart ==
    /\ kind = "cells_of_crosstab" /\ fn = ""
    /\ Ran("CRUCE", "create_waffle_chart")
    /\ waffle' = WaffleBlocks(cell_counts)
    /\ UNCHANGED <<kind, cell_counts, countsVars, cellVars, findVars, rowVars, headerVars,
                   crossVars, runVars, access, configVars, sessionVars,
                   dataframe, analysis, filterVars, selectorVars, displayVars, hubVars>>

\* what stops a loader before it reads the cells
AccessFailures ==
    {"no_credentials", "spreadsheet_not_found", "worksheet_not_found",
     "api_error", "other_error"}

\* pd.DataFrame(worksheet.get_all_records()): the header row names the
\* columns, the cells are numericised; no data row, no column
RecordsFrame(values) ==
    IF Len(values) <= 1 THEN <<>>
    ELSE DataFrame([r \in 1..(Len(values) - 1) |->
                       [i \in 1..Len(Head(values)) |-> numericise(values[r + 1][i])]],
                   Head(values))

\* get_all_records() raises 'the header row in the worksheet is not unique'
NotUnique(values) == IF values = <<>> THEN FALSE ELSE HasDuplicates(Head(values))

\* load_data_from_sheets(): None on every failure and on an empty table
load_data_from_sheets(acc, values) ==
    IF acc \in AccessFailures THEN None
    ELSE IF NotUnique(values) THEN LoadRawRows(values)
    ELSE IF RecordsFrame(values) = <<>> THEN None
    ELSE [none |-> FALSE, columns |-> clean_dataframe(RecordsFrame(values))]

\* load_data_secure() of the main page: every exception, the one of
\* get_all_records() included, ends in 'return None'; an empty table is
\* cleaned and returned
load_data_secure(acc, values) ==
    IF acc \in AccessFailures THEN None
    ELSE IF NotUnique(values) THEN None
    ELSE [none |-> FALSE, columns |-> clean_dataframe(RecordsFrame(values))]

\* the pages that call load_data_from_sheets()
LoaderPages == ReportPages \cup {"CRUCE", "SANKEY", "DISTRIBUCION"}

\* 'if df is None: st.error(...); return', else on to the filters
AfterLoad == outcome' = IF loaded'.none THEN "error" ELSE "filters"

\* main() of a page up to the filters: load_data_from_sheets()
ReportPageLoad ==
    /\ kind = "load" /\ fn = ""
    /\ \E p \in LoaderPages : Ran(p, "main")
    /\ loaded' = load_data_from_sheets(access, all_values)
    /\ AfterLoad
    /\ UNCHANGED <<kind, all_values, unique_headers, access, divisors, countsVars,
                   cellVars, findVars, rowVars, crossVars, configVars, sessionVars, analysisVars>>

\* main() of app.py up to the filters: load_data_secure()
MainPageLoad ==
    /\ kind = "load" /\ fn = ""
    /\ Ran("APP", "main")
    /\ loaded' = load_data_secure(access, all_values)
    /\ AfterLoad
    /\ UNCHANGED <<kind, all_values, unique_headers, access, divisors, countsVars,
                   cellVars, findVars, rowVars, crossVars, configVars, sessionVars, analysisVars>>

---------------------------------------------------------------------------
(* Which document a fetch opens *)

\* an environment variable or a secrets entry that is not set
NotSet == "<not set>"

\* os.getenv(name, default) and st.secrets.get(section, {}).get(key, default)
GetOr(value, default) == IF value = NotSet THEN default ELSE value

\* 'sheet_id or DEFAULT_SHEET_ID' for an argument that is None
ArgOr(arg, default) == IF arg = NotSet THEN default ELSE arg

\* load_data_from_sheets(), called by every page without arguments: the
\* module reads neither config/settings.py nor the environment
ReportPageFetch ==
    /\ kind = "config" /\ fn = ""
    /\ \E p \in LoaderPages : Ran(p, "load_data_from_sheets")
    /\ target' = [sheet_id |-> ArgOr(NotSet, DEFAULT_SHEET_ID),
                  worksheet_name |-> ArgOr(NotSet, DEFAULT_WORKSHEET_NAME)]
    /\ UNCHANGED <<kind, config, countsVars, cellVars, findVars, rowVars,
                   headerVars, crossVars, runVars, access, sessionVars, analysisVars>>

\* load_data_secure() of the main page: the secrets entries, else the
\* literals
MainPageFetch ==
    /\ kind = "config" /\ fn = ""
    /\ Ran("APP", "load_data_secure")
    /\ target' = [sheet_id |-> GetOr(config.secrets_sheet_id, DEFAULT_SHEET_ID),
                  worksheet_name |->
                      GetOr(config.secrets_worksheet_name, DEFAULT_WORKSHEET_NAME)]
    /\ UNCHANGED <<kind, config, countsVars, cellVars, findVars, rowVars,
                   headerVars, crossVars, runVars, access, sessionVars, analysisVars>>

---------------------------------------------------------------------------
(* The cached loaders over time.  st.cache_data keeps one entry per         *)
(* function (the pages pass no argument), for every session of the process, *)
(* whatever the function returned, None included; an entry that has reached *)
(* its ttl is gone.                                                         *)

CachedLoaders == {"load_data_from_sheets", "load_data_secure"}

\* @st.cache_data(ttl=...)
TTL(loader) ==
    IF loader = "load_data_secure" THEN SecureCacheTTL ELSE DEFAULT_CACHE_TTL

\* the loader's entry is there and younger than its ttl
Fresh(loader) ==
    /\ cache[loader] # <<>>
    /\ now - cache[loader].at < TTL(loader)

\* what the body of a loader returns now: None on a failure, else the
\* table as the sheet is
FetchNow == [none |-> ~sheet.ok, version |-> IF sheet.ok THEN sheet.version ELSE 0]

\* one call loader() of a page run: the entry if it is fresh, else one
\* execution of the body, whose result becomes the entry
CachedCall(loader) ==
    IF Fresh(loader)
    THEN /\ last_call' = [loader |-> loader, hit |-> TRUE,
                          none |-> cache[loader].value.none]
         /\ shown' = [shown EXCEPT ![loader] =
                         [none |-> cache[loader].value.none,
                          fetch |-> cache[loader].fetch,
                          version |-> cache[loader].value.version, at |-> now]]
         /\ UNCHANGED <<cache, cleared, fetch_log>>
    ELSE /\ Len(fetch_log) < MaxFetches
         /\ fetch_log' = Append(fetch_log, [loader |-> loader, at |-> now,
                                            cleared |-> loader \in cleared])
         /\ cache' = [cache EXCEPT ![loader] =
                         [value |-> FetchNow, at |-> now, fetch |-> Len(fetch_log')]]
         /\ cleared' = cleared \ {loader}
         /\ last_call' = [loader |-> loader, hit |-> FALSE, none |-> FetchNow.none]
         /\ shown' = [shown EXCEPT ![loader] =
                         [none |-> FetchNow.none, fetch |-> Len(fetch_log'),
                          version |-> FetchNow.version, at |-> now]]

\* the report pages visited in a session (every page of LoaderPages makes
\* the same call)
VisitedPages == {"NECESIDADES", "CRUCE"}

SessionRest ==
    UNCHANGED <<kind, countsVars, cellVars, findVars, rowVars, headerVars, crossVars,
                runVars, access, configVars, analysisVars>>

\* an interaction with a report page: its script runs main() once
VisitReportPage ==
    /\ kind = "session"
    /\ \E p \in VisitedPages : Ran(p, "main")
    /\ CachedCall("load_data_from_sheets")
    /\ UNCHANGED <<now, sheet>>
    /\ SessionRest

\* an interaction with the main page: app.py runs main() once
VisitMainPage ==
    /\ kind = "session"
    /\ Ran("APP", "main")
    /\ CachedCall("load_data_secure")
    /\ UNCHANGED <<now, sheet>>
    /\ SessionRest

\* refresh_data(): load_data_from_sheets.clear()
RefreshData ==
    /\ kind = "session"
    /\ cache["load_data_from_sheets"] # <<>>
    /\ Ran("SHEETS", "refresh_data")
    /\ cache' = [cache EXCEPT !["load_data_from_sheets"] = <<>>]
    /\ cleared' = cleared \cup {"load_data_from_sheets"}
    /\ UNCHANGED <<now, sheet, fetch_log, last_call, shown>>
    /\ SessionRest

\* time passes
Tick ==
    /\ kind = "session"
    /\ now + Step <= MaxTime
    /\ now' = now + Step
    /\ UNCHANGED <<page, fn, sheet, cache, cleared, fetch_log, last_call, shown>>
    /\ SessionRest

\* somebody edits the sheet
SheetEdit ==
    /\ kind = "session"
    /\ sheet.version < MaxEdits
    /\ sheet' = [sheet EXCEPT !.version = @ + 1]
    /\ UNCHANGED <<page, fn, now, cache, cleared, fetch_log, last_call, shown>>
    /\ SessionRest

\* the remote service starts or stops failing
SheetAvailability ==
    /\ kind = "session"
    /\ sheet' = [sheet EXCEPT !.ok = ~@]
    /\ UNCHANGED <<page, fn, now, cache, cleared, fetch_log, last_call, shown>>
    /\ SessionRest

---------------------------------------------------------------------------
(* The analysis functions on a table.  A column name is a text; the name   *)
(* 'NECESIDADES' is spelled with the atoms "NECESIDAD" "ES", so that the   *)
(* test 'necesidad' in col.lower() sees in it what it sees in the code.    *)

NamesOf(t) == [i \in 1..Len(t.columns) |-> t.columns[i].name]

HasColumn(t, name) == \E i \in 1..Len(t.columns) : t.columns[i].name = name

\* df[name], the names of a table being pairwise distinct
ColumnOf(t, name) ==
    t.columns[CHOOSE i \in 1..Len(t.columns) : t.columns[i].name = name].values

\* len(df)
RowsOf(t) == IF t.columns = <<>> THEN 0 ELSE Len(t.columns[1].values)

\* df.empty: no column or no row
Empty(t) == t.columns = <<>> \/ RowsOf(t) = 0

NECESIDADES == <<"NECESIDAD", "ES">>
NECESIDADES_2 == <<"Necesidad", "es", " ", "2">>
TIPO_DE_COMEDOR == <<"TIPO DE COMEDOR">>
NOMBRE_DEL_COMEDOR == <<"NOMBRE", " ", "DEL", " ", "COMEDOR">>
BARRIO == <<"BARRIO">>
BARRIO_2 == <<"Barrio", " ", "2">>
COMUNA == <<"COMUNA">>
NODO == <<"NODO", " ">>
NICHO == <<"NICHO", " ">>

\* a number in a cell: an integer n is the pair <<"int", digits of n>>, which
\* no text is
Number(n) == <<"int", ToString(n)>>
IsNumber(c) == Len(c) = 2 /\ c[1] = "int"

possible_names == <<NECESIDADES, <<"NECESIDAD">>, <<"REQUERIMIENTOS">>, <<"DEMANDAS">>>>

\* <<>> for None, <<name>> for the column found
find_necesidades_column(t) ==
    IF t.none THEN <<>>
    ELSE LET names == NamesOf(t)
             exact == {k \in 1..Len(possible_names) :
                          \E c \in 1..Len(names) : names[c] = possible_names[k]}
             partial == {c \in 1..Len(names) :
                            Contains(lower(names[c]), <<"necesidad">>)}
         IN  IF exact # {} THEN <<possible_names[First(exact)]>>
             ELSE IF partial # {} THEN <<names[First(partial)]>>
             ELSE <<>>

\* the messages of the early returns; "" stands for None
ColumnNotFound == "No se encontró la columna 'NECESIDADES'"
NoValidData == "No hay datos válidos en la columna de necesidades"
NoValidTokens == "No se pudieron extraer necesidades válidas"
TipoNotFound == "La columna 'TIPO DE COMEDOR' no se encontró en los datos"
TipoNoValidData == "No hay datos válidos en la columna 'TIPO DE COMEDOR'"
AnalysisText == "analysis_text"

\* 'return None, ..., message' and 'return counts, ..., analysis_text'
NoResult(message) == [none |-> TRUE, counts |-> <<>>, column |-> <<>>, message |-> message]
Result(c, col) == [none |-> FALSE, counts |-> c, column |-> col, message |-> AnalysisText]

\* the results analyze_necesidades(df) can return (value_counts() orders
\* equal counts in any order)
analyze_necesidades(t) ==
    IF t.none \/ Empty(t) THEN {NoResult("")}
    ELSE LET necesidades_col == find_necesidades_column(t)
         IN  IF necesidades_col = <<>> THEN {NoResult(ColumnNotFound)}
             ELSE LET valid_data == dropna(ColumnOf(t, necesidades_col[1]))
                      all_necesidades == parse_multiple_options(valid_data)
                  IN  IF valid_data = <<>> THEN {NoResult(NoValidData)}
                      ELSE IF NoTokens(all_necesidades) THEN {NoResult(NoValidTokens)}
                      ELSE {Result(c, necesidades_col) : c \in ValueCounts(all_necesidades)}

\* the results analyze_tipo_comedor(df) of utils/data_analysis.py can return
analyze_tipo_comedor(t) ==
    IF t.none \/ Empty(t) THEN {NoResult("")}
    ELSE IF ~HasColumn(t, TIPO_DE_COMEDOR) THEN {NoResult(TipoNotFound)}
    ELSE LET values == dropna(ColumnOf(t, TIPO_DE_COMEDOR))
         IN  IF values = <<>> THEN {NoResult(TipoNoValidData)}
             ELSE {Result(c, <<TIPO_DE_COMEDOR>>) : c \in ValueCounts(values)}

\* what an action on a table leaves alone
FrameRest ==
    UNCHANGED <<kind, dataframe, countsVars, cellVars, findVars, rowVars, headerVars,
                crossVars, runVars, access, configVars, sessionVars, cell_counts, waffle,
                selectorVars, displayVars, hubVars>>

AnalyzeNecesidades ==
    /\ kind = "frame" /\ fn = ""
    /\ Ran("NECESIDADES", "analyze_necesidades")
    /\ analysis' \in analyze_necesidades(dataframe)
    /\ UNCHANGED filterVars
    /\ FrameRest

AnalyzeTipoComedor ==
    /\ kind = "frame" /\ fn = ""
    /\ Ran("APP", "analyze_tipo_comedor")
    /\ analysis' \in analyze_tipo_comedor(dataframe)
    /\ UNCHANGED filterVars
    /\ FrameRest

---------------------------------------------------------------------------
(* Row filters: filter_dataframe and the sidebars of the pages.  A filtered *)
(* table carries the index of the rows it kept, as pandas does.             *)

Todos == <<"Todos">>
Todas == <<"Todas">>

\* str(x) of a cell
str(c) == IF IsNumber(c) THEN <<c[2]>> ELSE IF c = NaN THEN <<"nan">> ELSE c

\* Series.dtype: a column of integers is int64, any other column is object
dtype(values) ==
    IF values # <<>> /\ \A r \in 1..Len(values) : IsNumber(values[r])
    THEN "int64" ELSE "object"

\* Python's truth value of a filter value: '' and 0 are false
Truthy(value) == value # <<>> /\ value # Number(0)

AllRows(t) == [r \in 1..RowsOf(t) |-> r]

\* df[mask] and df.copy(): the rows at the positions of index, cells as
\* they are
Take(t, index) ==
    [none |-> FALSE,
     columns |-> [i \in 1..Len(t.columns) |->
                    [name |-> t.columns[i].name,
                     values |-> [k \in 1..Len(index) |-> t.columns[i].values[index[k]]]]],
     index |-> index]

\* the rows of index that 'df_filtered[column] == value' (object column) or
\* 'df_filtered[column].astype(str) == str(value)' keeps
FilterRows(t, index, column, value) ==
    LET cells == ColumnOf(t, column)
        Keep(r) == IF dtype(cells) = "object"
                   THEN cells[r] # NaN /\ cells[r] = value
                   ELSE str(cells[r]) = str(value)
    IN  SelectSeq(index, Keep)

RECURSIVE ApplyFilters(_, _, _)
ApplyFilters(t, index, fs) ==
    IF fs = <<>> THEN index
    ELSE LET column == Head(fs).column
             value == Head(fs).value
         IN  IF HasColumn(t, column) /\ Truthy(value) /\ value # Todos /\ value # Todas
             THEN ApplyFilters(t, FilterRows(t, index, column, value), Tail(fs))
             ELSE ApplyFilters(t, index, Tail(fs))

filter_dataframe(t, fs) ==
    IF t.none THEN [none |-> TRUE, columns |-> <<>>, index |-> <<>>]
    ELSE IF Empty(t) THEN Take(t, AllRows(t))
    ELSE Take(t, ApplyFilters(t, AllRows(t), fs))

\* the values and the dicts filter_dataframe is called with
FilterValues == { Todos, Todas, <<>>, Number(0), <<"1">>, <<"x">> }
FilterDicts ==
    { SelectSeq(<<[column |-> BARRIO, value |-> b], [column |-> COMUNA, value |-> c]>>,
                LAMBDA f : f.value # NaN) :
        <<b, c>> \in (FilterValues \cup {NaN}) \X (FilterValues \cup {NaN}) }

FilterDataframe ==
    /\ kind = "frame" /\ fn = ""
    /\ Ran("UTILS", "filter_dataframe")
    /\ \E fs \in FilterDicts :
          /\ filters' = fs
          /\ df_filtered' = filter_dataframe(dataframe, fs)
    /\ UNCHANGED <<analysis, selections>>
    /\ FrameRest

\* a table as the loaders return it: clean_dataframe turns every object
\* column into texts and nulls, so a column holds numbers only or no number
Cleaned(t) ==
    /\ ~t.none
    /\ \A i \in 1..Len(t.columns) :
          LET v == t.columns[i].values
          IN  \/ \A r \in 1..Len(v) : IsNumber(v[r])
              \/ \A r \in 1..Len(v) : ~IsNumber(v[r])

\* one selectbox of a sidebar: the column it filters, its 'all' label,
\* whether it offers and compares the raw values ('== selected') or their
\* str() ('.astype(str) == selected'), whether it is shown with no value to
\* offer, and whether its options come from df instead of df_filtered
Selectbox(column, all, raw, always, from_df) ==
    [column |-> column, all |-> all, raw |-> raw, always |-> always, from_df |-> from_df]

\* a variant that always offers the values of the whole table
Options_FromDf(t, index, box) ==
    LET cells == ColumnOf(t, box.column)
    IN  IF box.raw
        THEN {cells[k] : k \in {j \in 1..Len(cells) : cells[j] # NaN}}
        ELSE {str(cells[k]) :
                 k \in {j \in 1..Len(cells) : cells[j] # NaN /\ str(cells[j]) # <<"nan">>}}

\* the options after the 'all' label: the distinct non-null values of the
\* column in the rows of index (sorted() only orders them for display)
Options(t, index, box) ==
    LET cells == ColumnOf(t, box.column)
    IN  IF box.raw
        THEN {cells[index[k]] : k \in {j \in 1..Len(index) : cells[index[j]] # NaN}}
        ELSE {str(cells[index[k]]) :
                 k \in {j \in 1..Len(index) :
                          cells[index[j]] # NaN /\ str(cells[index[j]]) # <<"nan">>}}

\* the rows of index the comparison with the selected option keeps
SelectRows(t, index, box, selected) ==
    LET cells == ColumnOf(t, box.column)
        Keep(r) == IF box.raw THEN cells[r] # NaN /\ cells[r] = selected
                   ELSE str(cells[r]) = selected
    IN  SelectSeq(index, Keep)

\* the runs of a sidebar over its selectboxes, one per choice of the user:
\* each selectbox returns one of its options
RECURSIVE SidebarRuns(_, _, _, _)
SidebarRuns(t, index, boxes, done) ==
    IF boxes = <<>> THEN {[selections |-> done, index |-> index]}
    ELSE LET box == Head(boxes)
             options == Options(t, IF box.from_df THEN AllRows(t) ELSE index, box)
         IN  IF ~box.always /\ options = {}
             THEN SidebarRuns(t, index, Tail(boxes), done)
             ELSE UNION { SidebarRuns(t,
                                      IF selected = box.all THEN index
                                      ELSE SelectRows(t, index, box, selected),
                                      Tail(boxes),
                                      Append(done, [column |-> box.column, all |-> box.all,
                                                    raw |-> box.raw, options |-> options,
                                                    before |-> index, selected |-> selected])) :
                          selected \in options \cup {box.all} }

\* create_filters_sidebar of app.py: five fixed selectboxes, each shown when
\* its column is in the table
AppSelectboxes ==
    << Selectbox(NOMBRE_DEL_COMEDOR, Todos, TRUE, TRUE, TRUE),
       Selectbox(BARRIO, Todos, TRUE, TRUE, FALSE),
       Selectbox(COMUNA, Todas, FALSE, TRUE, FALSE),
       Selectbox(NODO, Todos, FALSE, TRUE, FALSE),
       Selectbox(NICHO, Todos, FALSE, TRUE, FALSE) >>

create_filters_sidebar(t) ==
    SidebarRuns(t, AllRows(t),
                SelectSeq(AppSelectboxes, LAMBDA box : HasColumn(t, box.column)), <<>>)

\* str.replace(' ', '')
NoBlanks(text) == SelectSeq(text, LAMBDA a : a # " ")

\* the column a report page filters for an expected name: the name itself, or
\* the first column whose name holds it, case and blanks ignored; <<>> if none
FoundCol(t, expected) ==
    LET names == NamesOf(t)
        partial == {c \in 1..Len(names) :
                       Contains(NoBlanks(lower(names[c])), NoBlanks(lower(expected)))}
    IN  IF HasColumn(t, expected) THEN <<expected>>
        ELSE IF partial # {} THEN <<names[First(partial)]>>
        ELSE <<>>

RECURSIVE FoundCols(_, _)
FoundCols(t, expected) ==
    IF expected = <<>> THEN <<>>
    ELSE FoundCol(t, Head(expected)) \o FoundCols(t, Tail(expected))

\* the keys of a dict filled in this order
RECURSIVE DictKeys(_)
DictKeys(keys) ==
    IF keys = <<>> THEN <<>>
    ELSE LET front == DictKeys(SubSeq(keys, 1, Len(keys) - 1))
             last == keys[Len(keys)]
         IN  IF \E i \in 1..Len(front) : front[i] = last THEN front ELSE Append(front, last)

ReportSelectboxes(columns) ==
    [i \in 1..Len(columns) |-> Selectbox(columns[i], Todos, FALSE, FALSE, FALSE)]

\* create_filters_sidebar of the Necesidades page
necesidades_create_filters_sidebar(t) ==
    SidebarRuns(t, AllRows(t),
                ReportSelectboxes(FoundCols(t, <<BARRIO, COMUNA, NODO, NICHO>>)), <<>>)

\* create_filters_sidebar of the Etapa Vital page: the columns found are the
\* keys of filter_columns
etapa_vital_create_filters_sidebar(t) ==
    SidebarRuns(t, AllRows(t),
                ReportSelectboxes(DictKeys(FoundCols(t,
                    <<NOMBRE_DEL_COMEDOR, BARRIO, COMUNA, NODO, NICHO>>))), <<>>)

Sidebar(p, runs) ==
    /\ kind = "frame" /\ fn = "" /\ Cleaned(dataframe)
    /\ Ran(p, "create_filters_sidebar")
    /\ \E run \in runs :
          /\ selections' = run.selections
          /\ df_filtered' = Take(dataframe, run.index)
    /\ UNCHANGED <<analysis, filters>>
    /\ FrameRest

AppFiltersSidebar == Sidebar("APP", create_filters_sidebar(dataframe))

NecesidadesFiltersSidebar ==
    Sidebar("NECESIDADES", necesidades_create_filters_sidebar(dataframe))

EtapaVitalFiltersSidebar ==
    Sidebar("ETAPA_VITAL", etapa_vital_create_filters_sidebar(dataframe))

---------------------------------------------------------------------------
(* The multi-value counting of utils/data_analysis.py *)

\* the pieces one entry contributes: '[n.strip() for n in str(entry).split(',')]',
\* nothing for an entry that is null or ''
EntryMentions(entry) ==
    IF entry = NaN \/ entry = <<>> THEN <<>>
    ELSE LET pieces == split(entry, {","})
         IN  [i \in 1..Len(pieces) |-> strip(pieces[i])]

RECURSIVE ExtendMentions(_)
ExtendMentions(entries) ==
    IF entries = <<>> THEN <<>>
    ELSE EntryMentions(Head(entries)) \o ExtendMentions(Tail(entries))

\* the entry analysis[key] of one multi-value column, for each order
\* value_counts() can give
ColumnMentions(values) ==
    LET data == dropna(values)
        all == ExtendMentions(data)
    IN  { [counts |-> c, total_menciones |-> Len(all), comedores_con |-> Len(data),
           mentions |-> all] : c \in ValueCounts(all) }

\* analyze_population_focus and analyze_needs_and_problems run the same loop
\* on each of their two columns
CountMentions(f) ==
    /\ kind = "cells" /\ fn = "" /\ series.values # <<>>
    /\ Ran("UTILS", f)
    /\ analysis' \in ColumnMentions(series.values)
    /\ UNCHANGED <<kind, series, all_options, countsVars, findVars, rowVars, headerVars,
                   crossVars, runVars, access, configVars, sessionVars, dataframe, filterVars,
                   cell_counts, waffle, selectorVars, displayVars, hubVars>>

AnalyzePopulationFocus == CountMentions("analyze_population_focus")

AnalyzeNeedsAndProblems == CountMentions("analyze_needs_and_problems")

---------------------------------------------------------------------------
(* The logical keys of the cross-tabulation page and of the bar-chart page *)

SearchPatterns(sector) ==
    << [key |-> "acciones_aparte",
        patterns |-> <<<<"acciones aparte">>, <<"otras acciones">>, <<"preparación y entrega">>>>],
       [key |-> "frecuencia_actividades",
        patterns |-> <<<<"frecuencia">>, <<"actividades y/o procesos">>>>],
       [key |-> "temas_ejecutados",
        patterns |-> <<<<"TEMAS O ACTIVIDADES">>, <<"ejecutado anteriormente">>>>],
       [key |-> "articulacion_institucion",
        patterns |-> <<<<"articulado con alguna institución">>, <<"articulación">>>>],
       [key |-> "sector_articulacion", patterns |-> sector],
       [key |-> "lineas_accion",
        patterns |-> <<<<"LINEAS DE ACCIÓN">>, <<"TIPOLOGIA DEL COMEDOR">>>>],
       [key |-> "social_comunitaria",
        patterns |-> <<<<"SOCIAL COMUNITARIA">>, <<"Colectivos, JAL">>>>],
       [key |-> "comercial", patterns |-> <<<<"COMERCIAL">>, <<"Supermercados, tiendas">>>>],
       [key |-> "institucional",
        patterns |-> <<<<"INSTITUCIONAL">>, <<"Alcaldía, gobernación">>>>] >>

DE_QUE_SECTOR == <<"De qué", " ", "sector">>

\* the two copies differ in the candidates of 'sector_articulacion'
CruceSearchPatterns == SearchPatterns(<<DE_QUE_SECTOR, <<"sector">>>>)
SankeySearchPatterns == SearchPatterns(<<DE_QUE_SECTOR, <<>>>>)

\* get_available_columns(df): the keys whose column was found, with it
\* ('if found_col': None and the empty name are false)
get_available_columns(d, search_patterns) ==
    LET entries == [i \in 1..Len(search_patterns) |->
                       [key |-> search_patterns[i].key,
                        found |-> find_column_in_df(d, search_patterns[i].patterns)]]
        kept == SelectSeq(entries, LAMBDA e : e.found # <<>> /\ e.found # <<<<>>>>)
    IN  [i \in 1..Len(kept) |-> [key |-> kept[i].key, column |-> kept[i].found[1]]]

ColumnOfKey(available, key) ==
    available[CHOOSE i \in 1..Len(available) : available[i].key = key].column

SchemaRest ==
    UNCHANGED <<kind, df, search_terms, found_col, countsVars, cellVars, rowVars, headerVars,
                crossVars, runVars, access, configVars, sessionVars, dataframe, analysis,
                filterVars, cell_counts, waffle, displayVars, hubVars>>

\* main() of the cross-tabulation page from get_available_columns to the
\* guard 'if var1_key and var2_key': the second selectbox offers the keys
\* other than the first and returns None when it has no option
CruceSelectVariables ==
    /\ kind = "schema" /\ fn = "" /\ ~df.none
    /\ Ran("CRUCE", "get_available_columns")
    /\ available_columns' = get_available_columns(df, CruceSearchPatterns)
    /\ LET keys == {available_columns'[i].key : i \in 1..Len(available_columns')}
       IN  IF keys = {}
           THEN variables' = [var1_key |-> "", var2_key |-> "", crossed |-> FALSE]
           ELSE \E var1_key \in keys :
                   IF keys \ {var1_key} = {}
                   THEN variables' = [var1_key |-> var1_key, var2_key |-> "",
                                      crossed |-> FALSE]
                   ELSE \E var2_key \in keys \ {var1_key} :
                           variables' =
                               [var1_key |-> var1_key, var2_key |-> var2_key,
                                crossed |-> TRUE,
                                var1_col |-> ColumnOfKey(available_columns', var1_key),
                                var2_col |-> ColumnOfKey(available_columns', var2_key)]
    /\ SchemaRest

\* get_available_columns of the bar-chart page
SankeyAvailableColumns ==
    /\ kind = "schema" /\ fn = ""
    /\ Ran("SANKEY", "get_available_columns")
    /\ available_columns' = get_available_columns(df, SankeySearchPatterns)
    /\ UNCHANGED variables
    /\ SchemaRest


---------------------------------------------------------------------------
(* The displays of a category's tier on the Necesidades and Problematicas  *)
(* pages: the markers of the analysis text, the colours of the bar chart   *)
(* and the column of the summary table.  The markers are named by their    *)
(* colour: red, orange, yellow and white circle.                           *)

\* analyze_necesidades: priority = red if percentage >= 10 else yellow if
\* percentage >= 3 else white
NecesidadesMarker(count, total_menciones) ==
    IF PctAtLeast(count, total_menciones, NecesidadesHighPct) THEN "red"
    ELSE IF PctAtLeast(count, total_menciones, NecesidadesMediumPct) THEN "yellow"
    ELSE "white"

\* analyze_problematicas: severity by 15, 8 and 3
ProblematicasMarker(count, total_menciones) ==
    IF PctAtLeast(count, total_menciones, ProblematicasCriticalPct) THEN "red"
    ELSE IF PctAtLeast(count, total_menciones, ProblematicasHighPct) THEN "orange"
    ELSE IF PctAtLeast(count, total_menciones, ProblematicasMediumPct) THEN "yellow"
    ELSE "white"

\* create_summary_table of the Necesidades page: 'Alta', 'Media' or 'Baja'
NecesidadesPriority(count, total) ==
    IF PctAtLeast(count, total, NecesidadesHighPct) THEN "Alta"
    ELSE IF PctAtLeast(count, total, NecesidadesMediumPct) THEN "Media"
    ELSE "Baja"

\* create_summary_table of the Problematicas page
ProblematicasSeverity(count, total) ==
    IF PctAtLeast(count, total, ProblematicasCriticalPct) THEN "Critica"
    ELSE IF PctAtLeast(count, total, ProblematicasHighPct) THEN "Alta"
    ELSE IF PctAtLeast(count, total, ProblematicasMediumPct) THEN "Media"
    ELSE "Baja"

DisplaysRest ==
    UNCHANGED <<kind, counts, cellVars, findVars, rowVars, headerVars, crossVars, runVars,
                access, configVars, sessionVars, dataframe, analysis, filterVars,
                cell_counts, waffle, selectorVars, hubVars>>

\* the Necesidades page from the counts of analyze_necesidades on: the
\* ranking lines of the analysis text (total_menciones, the number of
\* tokens, is the sum of their counts), the metrics, the chart and the
\* summary table
NecesidadesDisplays ==
    /\ kind = "counts" /\ fn = ""
    /\ Ran("NECESIDADES", "displays")
    /\ markers' = [i \in 1..Len(head(counts, AnalysisTopN)) |->
                     NecesidadesMarker(counts[i].count, sum(counts))]
    /\ tiers' = categorize_necesidades(counts)
    /\ chart_data' = TopNPlusOtros(counts, NecesidadesTopN)
    /\ colors' = [i \in 1..Len(chart_data') |->
                    NecesidadesColor(chart_data'[i], sum(counts))]
    /\ priorities' = [i \in 1..Len(counts) |->
                        NecesidadesPriority(counts[i].count, sum(counts))]
    /\ DisplaysRest

\* the Problematicas page from the counts of analyze_problematicas on
ProblematicasDisplays ==
    /\ kind = "counts" /\ fn = ""
    /\ Ran("PROBLEMATICAS", "displays")
    /\ markers' = [i \in 1..Len(head(counts, AnalysisTopN)) |->
                     ProblematicasMarker(counts[i].count, sum(counts))]
    /\ tiers' = categorize_problematicas(counts)
    /\ chart_data' = TopNPlusOtros(counts, ProblematicasTopN)
    /\ colors' = [i \in 1..Len(chart_data') |->
                    ProblematicasColor(chart_data'[i], sum(counts))]
    /\ priorities' = [i \in 1..Len(counts) |->
                        ProblematicasSeverity(counts[i].count, sum(counts))]
    /\ DisplaysRest


---------------------------------------------------------------------------
(* The visualization hub: the dashboards of the session, the form that     *)
(* adds one, and the listing.  A title is kept by its first character,     *)
(* which decides the alphabetical order of the listing; an emoji is named  *)
(* by its code point.  A date 'YYYY-MM-DD' is <<year, month, day>>: the    *)
(* order of the strings is the order of these tuples.                      *)

Dashboard(id, titulo, descripcion, url, fecha_creacion, tags) ==
    [id |-> id, titulo |-> titulo, descripcion |-> descripcion, url |-> url,
     fecha_creacion |-> fecha_creacion, tags |-> tags, activo |-> TRUE]

\* st.session_state.dashboards as the first run of the page sets it
InitialDashboards ==
    << Dashboard(1, <<"A">>, <<"sectores">>, <<"50ac558e">>, <<2025, 1, 7>>,
                 <<<<"Sectores">>, <<"Actividades">>, <<"Comedores">>>>),
       Dashboard(2, <<"U+1F3AD">>, <<"temas">>, <<"792db79b">>, <<2025, 1, 7>>,
                 <<<<"Temas">>, <<"Tipología">>, <<"Análisis Cruzado">>>>),
       Dashboard(3, <<"U+1F517">>, <<"reconocimiento">>, <<"a7f6a48b">>, <<2025, 1, 7>>,
                 <<<<"Reconocimiento">>, <<"Articulación">>, <<"Institucional">>>>),
       Dashboard(4, <<"U+1F37D">>, <<"actividades">>, <<"54a82b27">>, <<2025, 1, 7>>,
                 <<<<"Actividades">>, <<"Complementarias">>, <<"Servicios">>>>) >>

\* a variant that numbers the new dashboard with the length of the list
add_dashboard_LenAsId(ds, titulo, descripcion, url, tags, today) ==
    Append(ds, Dashboard(Len(ds), titulo, descripcion, url, today, tags))

\* add_dashboard: 'id': len(st.session_state.dashboards) + 1, then append
add_dashboard(ds, titulo, descripcion, url, tags, today) ==
    Append(ds, Dashboard(Len(ds) + 1, titulo, descripcion, url, today, tags))

\* [tag.strip() for tag in nuevos_tags.split(',') if tag.strip()]
tags_list(nuevos_tags) ==
    LET pieces == split(nuevos_tags, {","})
        stripped == [i \in 1..Len(pieces) |-> strip(pieces[i])]
    IN  SelectSeq(stripped, LAMBDA tag : tag # <<>>)

\* 'if nuevo_titulo and nueva_descripcion and nueva_url'
Complete(form) == form.titulo # <<>> /\ form.descripcion # <<>> /\ form.url # <<>>

\* the branch 'if submitted' of main(): the list after the run
Submit(ds, form) ==
    IF form.submitted /\ Complete(form)
    THEN add_dashboard(ds, form.titulo, form.descripcion, form.url,
                       tags_list(form.tags), form.today)
    ELSE ds

\* the code point of a character
CodePoint(c) ==
    CASE c = " " -> 32 [] c = "A" -> 65 [] c = "B" -> 66
      [] c = "U+1F37D" -> 127869 [] c = "U+1F3AD" -> 127917 [] c = "U+1F517" -> 128279

\* a < b for two strings
RECURSIVE TextLess(_, _)
TextLess(a, b) ==
    IF b = <<>> THEN FALSE
    ELSE IF a = <<>> THEN TRUE
    ELSE IF CodePoint(Head(a)) # CodePoint(Head(b))
         THEN CodePoint(Head(a)) < CodePoint(Head(b))
    ELSE TextLess(Tail(a), Tail(b))

\* a < b for two dates
DateLess(a, b) ==
    \/ a[1] < b[1]
    \/ a[1] = b[1] /\ a[2] < b[2]
    \/ a[1] = b[1] /\ a[2] = b[2] /\ a[3] < b[3]

MasReciente == "Más reciente"
MasAntiguo == "Más antiguo"
Alfabetico == "Alfabético"
SortOrders == {MasReciente, MasAntiguo, Alfabetico}

\* d comes before e under the key of the sort order
Before(d, e, sort_order) ==
    CASE sort_order = MasReciente -> DateLess(e.fecha_creacion, d.fecha_creacion)
      [] sort_order = MasAntiguo -> DateLess(d.fecha_creacion, e.fecha_creacion)
      [] sort_order = Alfabetico -> TextLess(d.titulo, e.titulo)

\* list.sort(key=..., reverse=...) on the copy: stable
RECURSIVE SortDashboards(_, _)
SortDashboards(ds, sort_order) ==
    IF ds = <<>> THEN <<>>
    ELSE LET rest == SortDashboards(Tail(ds), sort_order)
             k == Cardinality({i \in 1..Len(rest) : Before(rest[i], Head(ds), sort_order)})
         IN  SubSeq(rest, 1, k) \o <<Head(ds)>> \o SubSeq(rest, k + 1, Len(rest))

\* [d for d in filtered_dashboards if any(tag in d['tags'] for tag in selected_tags)]
HasTag(d, selected_tags) ==
    \E tag \in selected_tags : \E i \in 1..Len(d.tags) : d.tags[i] = tag

\* the listing of main(): a copy of the list, filtered by the selected tags
\* if any, then sorted
Listing(ds, selected_tags, sort_order) ==
    SortDashboards(IF selected_tags # {}
                   THEN SelectSeq(ds, LAMBDA d : HasTag(d, selected_tags))
                   ELSE ds,
                   sort_order)

\* all_tags: the tags the multiselect offers
all_tags(ds) == UNION { {ds[k].tags[i] : i \in 1..Len(ds[k].tags)} : k \in 1..Len(ds) }

\* the forms of a run: not submitted, or submitted with these fields
NoForm ==
    [submitted |-> FALSE, titulo |-> <<>>, descripcion |-> <<>>, url |-> <<>>,
     tags |-> <<>>, today |-> <<2025, 1, 7>>]
Forms ==
    {NoForm} \cup
    { [submitted |-> TRUE, titulo |-> t, descripcion |-> d, url |-> u, tags |-> g,
       today |-> IF t = <<"B">> THEN <<2026, 1, 1>> ELSE <<2024, 12, 31>>] :
        <<t, d, u, g>> \in {f \in {<<>>, <<"B">>, <<" ">>} \X {<<>>, <<"d">>} \X {<<>>, <<"u">>}
                                    \X {<<>>, <<"Temas", ",", " ", ",", "x">>} :
                              f[4] = <<>> \/ (f[1] # <<>> /\ f[2] # <<>> /\ f[3] # <<>>)} }
TagSelections == {{}, {<<"Temas">>}, {<<"x">>}}

\* one run of main() in a session: the form, then (after st.rerun() when a
\* dashboard was added) the filters and the listing
HubMain ==
    /\ kind = "hub"
    /\ \E form \in Forms, sort_order \in SortOrders :
       \E selected_tags \in {s \in TagSelections : s \subseteq all_tags(dashboards)} :
          /\ IF form.submitted /\ Complete(form) THEN Len(dashboards) < MaxDashboards ELSE TRUE
          /\ Ran("HUB", "main")
          /\ submission' = form
          /\ dashboards' = Submit(dashboards, form)
          /\ filtered_dashboards' = Listing(dashboards', selected_tags, sort_order)
    /\ UNCHANGED <<kind, countsVars, cellVars, findVars, rowVars, headerVars, crossVars,
                   runVars, access, configVars, sessionVars, dataframe, analysis,
                   filterVars, cell_counts, waffle, selectorVars, displayVars>>

InitHub == kind = "hub" /\ dashboards = InitialDashboards

---------------------------------------------------------------------------
(* Inputs: a value_counts() series has pairwise distinct labels and is     *)
(* sorted by count, descending; the pages reach the chart and categorize   *)
(* functions only with a non-empty series.                                 *)

\* counts, descending, from the number of categories having each count
RECURSIVE Desc(_, _)
Desc(mult, v) ==
    IF v = 0 THEN <<>> ELSE [i \in 1..mult[v] |-> v] \o Desc(mult, v - 1)

\* the series with these counts; the category at position otros (if any) is
\* a source category literally named 'Otros'
Series(cs, otros) ==
    [i \in 1..Len(cs) |->
        [name |-> IF i = otros THEN OTROS ELSE "cat" \o ToString(i),
         count |-> cs[i]]]

CountsInputs ==
    {Desc(mult, MaxCount) : mult \in [1..MaxCount -> 0..MaxCats]}
    \cup {<<c1, c2>> : c1 \in 1..MaxMentions, c2 \in 1..MaxMinor}

InitCounts ==
    /\ kind = "counts"
    /\ \E cs \in CountsInputs :
          /\ Len(cs) \in 1..MaxCats
          /\ \A i \in 1..Len(cs) - 1 : cs[i] >= cs[i + 1]
          /\ \E otros \in 0..Len(cs) : counts = Series(cs, otros)

Idle ==
    /\ page = "" /\ fn = ""
    /\ chart_data = <<>> /\ colors = <<>> /\ tiers = <<>>
    /\ all_options = <<>> /\ found_col = <<>>
    /\ cleaned = <<>> /\ grouped = <<>>
    /\ unique_headers = <<>> /\ loaded = None
    /\ df_clean = <<>> /\ crosstab = <<>>
    /\ divisors = {} /\ outcome = ""
    /\ target = <<>>
    /\ now = 0 /\ cache = [l \in CachedLoaders |-> <<>>] /\ cleared = {}
    /\ fetch_log = <<>> /\ last_call = <<>> /\ shown = [l \in CachedLoaders |-> <<>>]
    /\ analysis = <<>>
    /\ filters = <<>> /\ selections = <<>> /\ df_filtered = <<>>
    /\ waffle = <<>>
    /\ available_columns = <<>> /\ variables = <<>>
    /\ priorities = <<>> /\ markers = <<>>
    /\ submission = <<>> /\ filtered_dashboards = <<>>

NoCounts == counts = <<>>
NoSeries == series = [name |-> <<>>, values |-> <<>>] /\ top_n = 0
NoTable == df = [none |-> TRUE, columns |-> <<>>] /\ search_terms = <<>>
NoSheet == all_values = <<>>
NoPairs == raw_pairs = <<>> /\ by_records = TRUE
NoAccess == access = ""
NoConfig == config = <<>>
NoSession == sheet = [ok |-> TRUE, version |-> 0]
NoFrame == dataframe = None
NoCells == cell_counts = <<>>
NoHub == dashboards = <<>>
NoExtras == NoFrame /\ NoCells

\* sequences of at most n elements of S
SeqUpTo(S, n) == UNION {[1..k -> S] : k \in 0..n}

\* cells of a multi-select survey column
ParseCells ==
    { NaN, <<>>, <<"nan">>, <<"NaN">>, <<"None">>, <<"b">>, <<" ", "a", " ">>,
      <<"a", ",", " ", "b">>, <<"a", ",", ",", "none", ",">> }

InitCells ==
    /\ kind = "cells"
    /\ \E vs \in SeqUpTo(ParseCells, MaxEntries) :
          series = [name |-> <<"NECESIDADES">>, values |-> vs]
    /\ top_n = 0

\* cells and names of a categorical column, and the grouping parameter
RowCells ==
    { NaN, <<"Si">>, <<"Otros">>, <<"a">>, <<" ", "b">>,
      <<"ccc", ";", "a">>, <<"ccc", ",", "dddd">> }

RowColumnNames == { <<"sector">>, <<"Temas", " ", "ejecutados">> }

InitRows ==
    /\ kind = "rows"
    /\ top_n \in 1..MaxTopN
    /\ \E nm \in RowColumnNames, vs \in SeqUpTo(RowCells, MaxRows) :
          series = [name |-> nm, values |-> vs]

\* column names and candidates, one atom per character
ColumnNames == { <<"a">>, <<"B">>, <<"A", "b">>, <<"b", "A">> }
SearchTerms == { <<>>, <<"A">>, <<"b">>, <<"A", "b">>, <<"c">> }

InitColumns ==
    /\ kind = "columns"
    /\ search_terms \in SeqUpTo(SearchTerms, MaxTerms)
    /\ \/ df = [none |-> TRUE, columns |-> <<>>]
       \/ \E cols \in SeqUpTo(ColumnNames, MaxColumns) :
             IsInjective(cols) /\ df = [none |-> FALSE, columns |-> cols]

\* a table handed to an analysis function: None, or named columns of equal
\* length with pairwise distinct names
FrameSchemas ==
    { <<>>, <<NECESIDADES>>, <<NECESIDADES_2>>, <<TIPO_DE_COMEDOR>>,
      <<BARRIO, NECESIDADES>>, <<NECESIDADES_2, NECESIDADES>>,
      <<BARRIO, COMUNA>>, <<NOMBRE_DEL_COMEDOR, BARRIO>>, <<BARRIO_2, COMUNA>> }

\* the cells drawn for a column: multi-value texts for the survey columns,
\* names for the place columns, numbers and a numeric text for the zone code
FrameCells(name) ==
    IF name \in {NECESIDADES, NECESIDADES_2, TIPO_DE_COMEDOR}
    THEN { NaN, <<>>, <<"a">>, <<"a", ",", "b">> }
    ELSE IF name = COMUNA THEN { NaN, Number(0), Number(1), <<"1">> }
    ELSE { NaN, <<"x">>, <<"y">> }

Frames(schemas, maxrows) ==
    {None} \cup
    UNION { { [none |-> FALSE,
               columns |-> [i \in 1..Len(cols) |-> [name |-> cols[i], values |-> vals[i]]]] :
                 vals \in {v \in [1..Len(cols) -> SeqUpTo(UNION {FrameCells(cols[i]) : i \in 1..Len(cols)}, maxrows)] :
                             \A i \in 1..Len(cols) :
                                /\ Len(v[i]) = n
                                /\ \A r \in 1..n : v[i][r] \in FrameCells(cols[i])} } :
            <<cols, n>> \in schemas \X (0..maxrows) }

InitFrame ==
    /\ kind = "frame"
    /\ dataframe \in Frames(FrameSchemas, MaxFrameRows)

\* the positive cells of a crosstab, by the number of cells of each count
RECURSIVE Asc(_, _)
Asc(mult, v) ==
    IF v > MaxCellCount THEN <<>>
    ELSE [i \in 1..mult[v] |-> v] \o Asc(mult, v + 1)

InitCellCounts ==
    /\ kind = "cells_of_crosstab"
    /\ \E mult \in [1..MaxCellCount -> 0..MaxCells] :
          /\ Len(Asc(mult, 1)) \in 1..MaxCells
          /\ cell_counts = Asc(mult, 1)

\* the column names of a loaded table the pages look their keys up in
SchemaNames ==
    { DE_QUE_SECTOR, <<"Sector", " ", "de", " ", "articulación">>, <<"articulación">>,
      <<"COMERCIAL">>, BARRIO }

InitSchema ==
    /\ kind = "schema"
    /\ search_terms = <<>>
    /\ \/ df = [none |-> TRUE, columns |-> <<>>]
       \/ \E cols \in SeqUpTo(SchemaNames, MaxColumns) :
             IsInjective(cols) /\ df = [none |-> FALSE, columns |-> cols]

\* headers and cells of a raw sheet: get_all_values() returns a rectangle
\* of texts
HeaderNames == { "NOMBRE", "BARRIO", "NOMBRE_1" }
RawCells == { <<"x">>, <<" ", "nan">> }

RawSheets ==
    {<<>>} \cup UNION {{<<headers>> \o data :
                          headers \in [1..n -> HeaderNames],
                          data \in SeqUpTo([1..n -> RawCells], MaxDataRows)} :
                      n \in 1..MaxHeaders}

InitHeaders ==
    /\ kind = "headers"
    /\ all_values \in RawSheets

\* the worksheet is read, or one of the failures stops the loader first
InitLoad ==
    /\ kind = "load"
    /\ \/ access = "ok" /\ all_values \in RawSheets
       \/ access \in AccessFailures /\ all_values = <<>>

\* texts of the cells under two categorical columns
PairCells == { <<>>, <<"nan">>, <<"NaN">>, <<"a">>, <<" ", "b">> }

InitPairs ==
    /\ kind = "crosstab"
    /\ by_records \in BOOLEAN
    /\ raw_pairs \in SeqUpTo(PairCells \X PairCells, MaxPairs)

\* GOOGLE_SHEET_ID and WORKSHEET_NAME of the environment, sheet_id and
\* worksheet_name of the [google_sheets] secrets: each set or not
InitConfig ==
    /\ kind = "config"
    /\ config \in [env_GOOGLE_SHEET_ID : {NotSet, "env-id"},
                   env_WORKSHEET_NAME : {NotSet, "env-name"},
                   secrets_sheet_id : {NotSet, "secrets-id"},
                   secrets_worksheet_name : {NotSet, "secrets-name"}]

\* a server process starts with empty caches; the sheet answers or not
InitSession ==
    /\ kind = "session"
    /\ sheet \in [ok : BOOLEAN, version : {0}]

Init ==
    /\ Idle
    /\ \/ InitCounts /\ NoSeries /\ NoTable /\ NoSheet /\ NoPairs /\ NoAccess /\ NoConfig /\ NoSession /\ NoExtras /\ NoHub
       \/ InitCells /\ NoCounts /\ NoTable /\ NoSheet /\ NoPairs /\ NoAccess /\ NoConfig /\ NoSession /\ NoExtras /\ NoHub
       \/ InitRows /\ NoCounts /\ NoTable /\ NoSheet /\ NoPairs /\ NoAccess /\ NoConfig /\ NoSession /\ NoExtras /\ NoHub
       \/ InitColumns /\ NoCounts /\ NoSeries /\ NoSheet /\ NoPairs /\ NoAccess /\ NoConfig /\ NoSession /\ NoExtras /\ NoHub
       \/ InitHeaders /\ NoCounts /\ NoSeries /\ NoTable /\ NoPairs /\ NoAccess /\ NoConfig /\ NoSession /\ NoExtras /\ NoHub
       \/ InitPairs /\ NoCounts /\ NoSeries /\ NoTable /\ NoSheet /\ NoAccess /\ NoConfig /\ NoSession /\ NoExtras /\ NoHub
       \/ InitLoad /\ NoCounts /\ NoSeries /\ NoTable /\ NoPairs /\ NoConfig /\ NoSession /\ NoExtras /\ NoHub
       \/ InitConfig /\ NoCounts /\ NoSeries /\ NoTable /\ NoSheet /\ NoPairs /\ NoAccess
            /\ NoSession /\ NoExtras /\ NoHub
       \/ InitSession /\ NoCounts /\ NoSeries /\ NoTable /\ NoSheet /\ NoPairs /\ NoAccess
            /\ NoConfig /\ NoExtras /\ NoHub
       \/ InitFrame /\ NoCounts /\ NoSeries /\ NoTable /\ NoSheet /\ NoPairs /\ NoAccess
            /\ NoConfig /\ NoSession /\ NoCells /\ NoHub
       \/ InitSchema /\ NoCounts /\ NoSeries /\ NoSheet /\ NoPairs /\ NoAccess
            /\ NoConfig /\ NoSession /\ NoExtras /\ NoHub
       \/ InitCellCounts /\ NoCounts /\ NoSeries /\ NoTable /\ NoSheet /\ NoPairs /\ NoAccess
            /\ NoConfig /\ NoSession /\ NoFrame /\ NoHub
       \/ InitHub /\ NoCounts /\ NoSeries /\ NoTable /\ NoSheet /\ NoPairs /\ NoAccess
            /\ NoConfig /\ NoSession /\ NoExtras

Next ==
    \/ NecesidadesChart
    \/ ProblematicasChart
    \/ EnfoquesChart
    \/ OtrasCategoriasChart
    \/ EtapaVitalChart
    \/ CategorizeNecesidades
    \/ CategorizeProblematicas
    \/ ParseMultipleOptions
    \/ FindColumnInDf
    \/ CleanAndGroupData
    \/ CleanAndProcessData
    \/ MakeHeadersUnique
    \/ LoadDataFromRawRows
    \/ CruceMain
    \/ ReportMain
    \/ ReportPageLoad
    \/ MainPageLoad
    \/ ReportPageFetch
    \/ MainPageFetch
    \/ VisitReportPage
    \/ VisitMainPage
    \/ RefreshData
    \/ Tick
    \/ SheetEdit
    \/ SheetAvailability
    \/ AnalyzeNecesidades
    \/ AnalyzeTipoComedor
    \/ FilterDataframe
    \/ AppFiltersSidebar
    \/ NecesidadesFiltersSidebar
    \/ EtapaVitalFiltersSidebar
    \/ AnalyzePopulationFocus
    \/ AnalyzeNeedsAndProblems
    \/ CreateWaffleChart
    \/ CruceSelectVariables
    \/ SankeyAvailableColumns
    \/ NecesidadesDisplays
    \/ ProblematicasDisplays
    \/ HubMain

Spec == Init /\ [][Next]_vars

---------------------------------------------------------------------------
(* Properties *)

ChartRan == fn = "create_horizontal_bar_chart"

\* the N of the chart function of the page that ran
PageTopN ==
    CASE page = "NECESIDADES" -> NecesidadesTopN
      [] page = "PROBLEMATICAS" -> ProblematicasTopN
      [] page = "ENFOQUES" -> EnfoquesTopN
      [] page = "OTRAS_CATEGORIAS" -> OtrasCategoriasTopN
      [] page = "ETAPA_VITAL" -> EtapaVitalTopN

\* C1: for every chart function, the counts of the bars add up to the counts
\* of the input series.
C1_TopNPreservesMass == ChartRan => sum(chart_data) = sum(counts)

\* C2: an input with at most n distinct categories comes back unchanged, with
\* no 'Otros' added: the bars are the series (chart functions), the returned
\* rows are the cleaned rows (clean_and_group_data with n = top_n,
\* clean_and_process_data with n = max_categories).
C2_AtMostNUnchanged ==
    /\ (ChartRan /\ Len(counts) <= PageTopN) => chart_data = counts
    /\ ( /\ fn \in {"clean_and_group_data", "clean_and_process_data"}
         /\ Cardinality(Distinct(cleaned)) <= top_n ) => grouped = cleaned

C2_Witness ==
    /\ fn = "clean_and_group_data" /\ top_n = 2
    /\ Cardinality(Distinct(cleaned)) = 2 /\ Len(cleaned) = 3
    /\ grouped = cleaned

\* the bars of an input with more than n categories: the first n entries of
\* the series, in order, none smaller than an entry left out, then one
\* appended 'Otros' bar, last, with the sum of the entries left out
ChartBucketed(n) ==
    /\ Len(chart_data) = n + 1
    /\ \A i \in 1..n : chart_data[i] = counts[i]
    /\ \A i \in 1..n, j \in (n + 1)..Len(counts) : counts[i].count >= counts[j].count
    /\ chart_data[n + 1] = [name |-> OTROS, count |-> sum(SubSeq(counts, n + 1, Len(counts)))]

\* the rows of an input with more than k categories when k are kept: some k
\* categories, none rarer than one left out, keep their rows; every other
\* row is 'Otros'
RowsBucketed(k) ==
    \E T \in SUBSET Distinct(cleaned) :
        /\ Cardinality(T) = k
        /\ \A a \in T, b \in Distinct(cleaned) \ T :
              Count(cleaned, a) >= Count(cleaned, b)
        /\ Len(grouped) = Len(cleaned)
        /\ \A i \in 1..Len(cleaned) :
              grouped[i] = IF cleaned[i] \in T THEN cleaned[i] ELSE <<OTROS>>

OtrosCharts == {"NECESIDADES", "PROBLEMATICAS", "ENFOQUES", "OTRAS_CATEGORIAS"}

C3_Charts ==
    (ChartRan /\ page \in OtrosCharts /\ Len(counts) > PageTopN)
        => ChartBucketed(PageTopN)

C4_OtrosDistinguishable ==
    /\ (ChartRan /\ page \in OtrosCharts /\ Len(counts) > PageTopN) =>
          \A i \in 1..PageTopN :
              /\ chart_data[i].name # chart_data[PageTopN + 1].name
              /\ colors[i] # colors[PageTopN + 1]
    /\ fn \in {"clean_and_group_data", "clean_and_process_data"} =>
          \A i, j \in 1..Len(grouped) :
              (cleaned[i] = <<OTROS>> /\ cleaned[j] # <<OTROS>>)
                  => grouped[i] # grouped[j]

---------------------------------------------------------------------------
(* The multi-value parser, stated by positions *)

\* the positions of the commas of a text, and the k-th of them (0 before the
\* first piece, Len + 1 after the last)
Commas(t) == {i \in 1..Len(t) : t[i] = ","}

Bound(t, k) ==
    IF k = 0 THEN 0
    ELSE IF k > Cardinality(Commas(t)) THEN Len(t) + 1
    ELSE CHOOSE i \in Commas(t) : Cardinality({j \in Commas(t) : j <= i}) = k

NPieces(c) == IF c = NaN THEN 0 ELSE Cardinality(Commas(c)) + 1

RECURSIVE Trim(_)
Trim(t) ==
    IF t # <<>> /\ IsSpace(Head(t)) THEN Trim(Tail(t))
    ELSE IF t # <<>> /\ IsSpace(t[Len(t)]) THEN Trim(SubSeq(t, 1, Len(t) - 1))
    ELSE t

\* the k-th comma-separated piece of a cell, trimmed
Piece(c, k) == Trim(SubSeq(c, Bound(c, k - 1) + 1, Bound(c, k) - 1))

\* null-equivalent, ignoring letter case / with the exact literals
NullEquivalent(t) == lower(t) \in {<<"nan">>, <<"none">>}
NullLiteral(t) == t \in {<<"nan">>, <<"None">>}

\* the tokens from piece k of row r on, in row order then piece order
RECURSIVE TokensFrom(_, _, _)
TokensFrom(values, r, k) ==
    IF r > Len(values) THEN <<>>
    ELSE IF k > NPieces(values[r]) THEN TokensFrom(values, r + 1, 1)
    ELSE LET p == Piece(values[r], k)
         IN  (IF p # <<>> /\ ~NullEquivalent(p) THEN <<p>> ELSE <<>>)
                 \o TokensFrom(values, r, k + 1)

ParseRan == fn = "parse_multiple_options"

\* C5: the parser returns, in row order and then split order, every trimmed
\* comma-separated piece that is neither empty nor null-equivalent, once per
\* occurrence; cells that are null, empty or null-equivalent add nothing, so
\* an input of only such cells gives the empty list.
C5_ParseOrderPreserved ==
    ParseRan =>
        /\ all_options = TokensFrom(series.values, 1, 1)
        /\ (\A r \in 1..Len(series.values) :
               LET c == series.values[r]
               IN  c = NaN \/ c = <<>> \/ NullEquivalent(c)) => all_options = <<>>

C5_Witness ==
    /\ ParseRan
    /\ series.values = << <<"a", ",", " ", "b">>, <<"a", ",", ",", "none", ",">> >>
    /\ all_options = << <<"a">>, <<"b">>, <<"a">> >>

\* every trimmed piece of every non-null cell
RowPieces(r) == {Piece(series.values[r], k) : k \in 1..NPieces(series.values[r])}
Pieces == UNION {RowPieces(r) : r \in 1..Len(series.values)}

\* C6 as stated: a piece is dropped only when it is empty or exactly "nan" or
\* "None"; every other piece, also one differing only in letter case, is a
\* token.
C6_NullSetCaseSensitive ==
    ParseRan => Distinct(all_options) = {p \in Pieces : p # <<>> /\ ~NullLiteral(p)}

\* C6 amended: the null-equivalent set is "nan" and "none" ignoring letter
\* case: a piece is dropped exactly when it is empty or equals one of them
\* ignoring case; every other piece is a token.
C6_NullSetIgnoresCase ==
    ParseRan => Distinct(all_options) = {p \in Pieces : p # <<>> /\ ~NullEquivalent(p)}

C6_Witness ==
    /\ ParseRan
    /\ series.values = << <<"NaN">>, <<"b">> >>
    /\ all_options = << <<"b">> >>

---------------------------------------------------------------------------
(* The column resolver *)

FindRan == fn = "find_column_in_df"

Columns == IF df.none THEN <<>> ELSE df.columns

\* col contains term as a substring, ignoring letter case
ContainsIgnoringCase(col, term) ==
    \E i \in 1..(Len(col) + 1), j \in 0..Len(col) :
        /\ j - i + 1 = Len(term)
        /\ \A k \in 1..Len(term) : LowerAtom(col[i + k - 1]) = LowerAtom(term[k])

Matches(col, term) == col = term \/ ContainsIgnoringCase(col, term)

ExactTerms == {t \in 1..Len(search_terms) :
                  \E c \in 1..Len(Columns) : Columns[c] = search_terms[t]}

\* C7: the resolver returns None exactly when no column equals or contains
\* (ignoring case) a candidate; otherwise it returns a column of the table
\* that equals or contains (ignoring case) one of the candidates.
C7_FindNoneIffNoMatch ==
    FindRan =>
        LET any == \E c \in 1..Len(Columns), t \in 1..Len(search_terms) :
                       Matches(Columns[c], search_terms[t])
        IN  /\ found_col = <<>> <=> ~any
            /\ found_col # <<>> =>
                  /\ \E c \in 1..Len(Columns) : Columns[c] = found_col[1]
                  /\ \E t \in 1..Len(search_terms) :
                        Matches(found_col[1], search_terms[t])

C7_Witness ==
    /\ FindRan
    /\ df.columns = << <<"a">>, <<"B">> >>
    /\ search_terms = << <<"c">>, <<"b">> >>
    /\ found_col = << <<"B">> >>

\* C8: if some candidate is exactly a column name, the result is the first
\* such candidate in candidate order, whatever the columns that contain an
\* earlier candidate.
C8_ExactMatchFirst ==
    (FindRan /\ ExactTerms # {}) =>
        \E t \in ExactTerms :
            /\ \A u \in ExactTerms : t <= u
            /\ found_col = <<search_terms[t]>>

C8_Witness ==
    /\ FindRan
    /\ df.columns = << <<"a">>, <<"A", "b">> >>
    /\ search_terms = << <<"A">>, <<"A", "b">> >>
    /\ found_col = << <<"A", "b">> >>

\* C9: with no exact match, the result is the first column, in table order,
\* that contains the earliest-listed candidate having any match.
C9_CandidateThenColumnOrder ==
    (FindRan /\ ExactTerms = {}) =>
        \A t \in 1..Len(search_terms), c \in 1..Len(Columns) :
            ( /\ ContainsIgnoringCase(Columns[c], search_terms[t])
              /\ \A u \in 1..(t - 1), d \in 1..Len(Columns) :
                    ~ContainsIgnoringCase(Columns[d], search_terms[u])
              /\ \A d \in 1..(c - 1) :
                    ~ContainsIgnoringCase(Columns[d], search_terms[t]) )
            => found_col = <<Columns[c]>>

---------------------------------------------------------------------------
(* Tier classification *)

Total == sum(counts)

\* C10: a problem is critical iff 100*count >= 15*total, high iff
\* 8*total <= 100*count < 15*total, medium iff 3*total <= 100*count <
\* 8*total, low otherwise; a need is high iff 100*count >= 10*total, medium
\* iff 3*total <= 100*count < 10*total, low otherwise; every category is in
\* exactly one tier.
C10_TierThresholds ==
    /\ fn = "categorize_problematicas" =>
          \A e \in Entries(counts) :
              /\ e \in tiers.critical <=> 100 * e.count >= 15 * Total
              /\ e \in tiers.high <=>
                    (8 * Total <= 100 * e.count /\ 100 * e.count < 15 * Total)
              /\ e \in tiers.medium <=>
                    (3 * Total <= 100 * e.count /\ 100 * e.count < 8 * Total)
              /\ e \in tiers.low <=> 100 * e.count < 3 * Total
              /\ Cardinality({t \in {"critical", "high", "medium", "low"} :
                                 e \in tiers[t]}) = 1
    /\ fn = "categorize_necesidades" =>
          \A e \in Entries(counts) :
              /\ e \in tiers.high <=> 100 * e.count >= 10 * Total
              /\ e \in tiers.medium <=>
                    (3 * Total <= 100 * e.count /\ 100 * e.count < 10 * Total)
              /\ e \in tiers.low <=> 100 * e.count < 3 * Total
              /\ Cardinality({t \in {"high", "medium", "low"} :
                                 e \in tiers[t]}) = 1

\* a problem at exactly 15% is critical, beside another above it
C10_Witness ==
    /\ fn = "categorize_problematicas"
    /\ Len(counts) = 2 /\ counts[1].count = 17 /\ counts[2].count = 3
    /\ counts[2] \in tiers.critical


HeadersRan == fn \in {"make_headers_unique", "load_data_from_sheets"} /\ all_values # <<>>

\* how many earlier headers of the row bear the name of the i-th
Repeat(headers, i) == Cardinality({j \in 1..(i - 1) : headers[j] = headers[i]})

\* C13: make_headers_unique keeps the length and the order of the header
\* row, leaves the first occurrence of a name unchanged and renames its k-th
\* repeat to NAME_k; in the fallback load the i-th column of the table bears
\* the i-th unique header and holds the cells of position i (as the sheet
\* gave them, or stripped with null-equivalents blanked)
C13_RepeatsSuffixed ==
    HeadersRan =>
        LET headers == Head(all_values) IN
        /\ Len(unique_headers) = Len(headers)
        /\ \A i \in 1..Len(headers) :
              unique_headers[i] =
                 IF Repeat(headers, i) = 0 THEN headers[i]
                 ELSE headers[i] \o "_" \o ToString(Repeat(headers, i))
        /\ (fn = "load_data_from_sheets" /\ ~loaded.none) =>
              /\ Len(loaded.columns) = Len(headers)
              /\ \A i \in 1..Len(headers) :
                    /\ loaded.columns[i].name = unique_headers[i]
                    /\ Len(loaded.columns[i].values) = Len(all_values) - 1
                    /\ \A r \in 1..(Len(all_values) - 1) :
                          loaded.columns[i].values[r]
                             \in {all_values[r + 1][i], CleanText(all_values[r + 1][i])}

\* the fallback load ran on 'NOMBRE' twice with different cells below them
C13_Witness ==
    /\ fn = "load_data_from_sheets"
    /\ Len(all_values) = 2
    /\ Head(all_values) = <<"NOMBRE", "NOMBRE">>
    /\ all_values[2][1] # all_values[2][2]
    /\ unique_headers = <<"NOMBRE", "NOMBRE_1">>
    /\ ~loaded.none

\* C14: the names returned by make_headers_unique are pairwise distinct,
\* also when the header row already holds names of the form NAME_k
C14_SchemaUnique == HeadersRan => IsInjective(unique_headers)


\* the text is one that clean_and_group_data files under 'Sin respuesta'
NullText(cell) == strip(cell) \in {<<"nan">>, <<"None">>, <<>>, <<"NaN">>}

BothPresent(pairs) ==
    {r \in 1..Len(pairs) : ~NullText(pairs[r][1]) /\ ~NullText(pairs[r][2])}

RECURSIVE SumOver(_, _)
SumOver(f, S) ==
    IF S = {} THEN 0
    ELSE LET x == CHOOSE y \in S : TRUE IN f[x] + SumOver(f, S \ {x})

CrosstabTotal == SumOver(crosstab, DOMAIN crosstab)

\* C12: the cells of the crosstab add up to the number of sheet rows whose
\* two selected cells are both present, and no row is counted in a cell of
\* the placeholder category 'Sin respuesta'
C12_CrosstabCountsPresentRows ==
    kind = "crosstab" /\ fn = "create_waffle_chart" =>
        /\ CrosstabTotal = Cardinality(BothPresent(raw_pairs))
        /\ \A cell \in DOMAIN crosstab :
              SIN_RESPUESTA \in {cell[1], cell[2]} => crosstab[cell] = 0


\* a report page's main() ran on a filtered table
AnalysisRan == kind = "cells" /\ fn = "main"

\* C11: every division of a page run has a positive denominator: the
\* analysis, the tiers, the chart, the summary table, the per-comedor
\* averages and the waffle percentage are reached only with total mentions
\* > 0 and rows with valid data > 0, and a run whose token list is empty
\* ends in the no-data return with nothing analysed
C11_NoZeroTotal ==
    /\ \A d \in divisors : d.by > 0
    /\ outcome = "rendered" => divisors # {}
    /\ (AnalysisRan /\ parse_multiple_options(dropna(series.values)) = <<>>)
          => outcome = "no_data" /\ divisors = {} /\ counts = <<>> /\ tiers = <<>>
    /\ (AnalysisRan /\ outcome = "rendered")
          => /\ Over("total_menciones", Len(parse_multiple_options(series.values)))
                   \in divisors
             /\ Over("comedores_con", Len(dropna(series.values))) \in divisors
    /\ (kind = "crosstab" /\ fn = "create_waffle_chart")
          => divisors = {Over("total", CrosstabTotal)}

\* a Necesidades run that analysed a column with a missing cell and a cell
\* of null-equivalents only next to one valid cell
C11_Witness ==
    /\ fn = "main" /\ page = "NECESIDADES" /\ outcome = "rendered"
    /\ Over("total_comedores", 2) \in divisors
    /\ Over("comedores_con", 1) \in divisors
    /\ tiers # <<>>


LoadRan == kind = "load" /\ fn = "main"

\* the sheet has a header row with a repeated name and at least one data row
DuplicateHeaders == Len(all_values) >= 2 /\ HasDuplicates(Head(all_values))

\* C15: a header row with duplicate names does not make loading fail:
\* load_data_from_sheets and load_data_secure both return a table built from
\* the raw rows, its columns named by the disambiguated headers
C15_DuplicatesLoadAnyway ==
    (LoadRan /\ access = "ok" /\ DuplicateHeaders) =>
        /\ ~loaded.none
        /\ [i \in 1..Len(loaded.columns) |-> loaded.columns[i].name]
              = make_headers_unique(Head(all_values))

\* the load met a failure: the worksheet could not be opened, or it is empty
LoadFailure == access \in AccessFailures \/ Len(all_values) <= 1

\* C16: on every failure of the load the loader returns None, and a page
\* that gets None shows the error and returns before the filters
C16_FailuresEndInError ==
    LoadRan =>
        /\ LoadFailure => loaded.none
        /\ loaded.none => outcome = "error"


\* the values configured outside the code, or the default if there is none
Configured(env, secret, default) ==
    IF {env, secret} = {NotSet} THEN {default} ELSE {env, secret} \ {NotSet}

\* C20: every fetch, of the main page and of every report page, opens the
\* document and the worksheet configured in the environment or the secrets
\* when there is such a value, and the hard-coded default only otherwise
C20_FetchUsesConfiguration ==
    (kind = "config" /\ fn # "") =>
        /\ target.sheet_id \in
              Configured(config.env_GOOGLE_SHEET_ID, config.secrets_sheet_id,
                         DEFAULT_SHEET_ID)
        /\ target.worksheet_name \in
              Configured(config.env_WORKSHEET_NAME, config.secrets_worksheet_name,
                         DEFAULT_WORKSHEET_NAME)


\* C17: the remote sheet is fetched at most once per TTL window: of two
\* fetches less than the TTL apart, the later one follows a refresh_data()
\* that removed the entry
C17_OneFetchPerWindow ==
    \A i, j \in 1..Len(fetch_log) :
        (i < j /\ fetch_log[j].at - fetch_log[i].at < DEFAULT_CACHE_TTL)
            => fetch_log[j].cleared

\* C18: a failed load is not served from the cache: no call of a loader
\* returns a cached None, so the interaction after a failure fetches again
C18_FailureNotServedFromCache ==
    last_call # <<>> => ~(last_call.hit /\ last_call.none)

\* the fetch behind the table a loader's page last got
ShownFetch(loader) == fetch_log[shown[loader].fetch]

\* C19: one cached table for the process: the main page and the report
\* pages never show tables that come from two different fetches made
\* within one TTL window by page visits alone
C19_OneSnapshotPerWindow ==
    \A l1, l2 \in CachedLoaders :
        ( /\ shown[l1] # <<>> /\ shown[l2] # <<>>
          /\ ~shown[l1].none /\ ~shown[l2].none
          /\ ShownFetch(l1).at <= ShownFetch(l2).at
          /\ ShownFetch(l2).at - ShownFetch(l1).at < DEFAULT_CACHE_TTL
          /\ ~ShownFetch(l2).cleared )
            => /\ shown[l1].fetch = shown[l2].fetch
               /\ shown[l1].version = shown[l2].version

---------------------------------------------------------------------------
(* The analysis functions *)

AnalyzeRan == kind = "frame" /\ fn \in {"analyze_necesidades", "analyze_tipo_comedor"}

\* the column the function works on is in the table
ColumnResolved ==
    IF fn = "analyze_necesidades" THEN find_necesidades_column(dataframe) # <<>>
    ELSE HasColumn(dataframe, TIPO_DE_COMEDOR)

\* the column holds at least one token (analyze_necesidades) or one
\* non-null value (analyze_tipo_comedor)
ValidValueExists ==
    IF fn = "analyze_necesidades"
    THEN parse_multiple_options(ColumnOf(dataframe, find_necesidades_column(dataframe)[1])) # <<>>
    ELSE dropna(ColumnOf(dataframe, TIPO_DE_COMEDOR)) # <<>>

\* C21: an analysis function returns counts only when its column was
\* resolved and holds a valid value, and then the counts are non-empty; on
\* a table without the column it returns no counts and the 'column not
\* found' message; on a table whose column holds no valid value it returns
\* no counts and a 'no valid data' message, different from the former
C21_FailureMessages ==
    AnalyzeRan /\ ~dataframe.none =>
        /\ ~analysis.none => ColumnResolved /\ ValidValueExists /\ analysis.counts # <<>>
        /\ ~ColumnResolved =>
              /\ analysis.none
              /\ analysis.message = IF fn = "analyze_necesidades"
                                    THEN ColumnNotFound ELSE TipoNotFound
        /\ ColumnResolved =>
              \/ ValidValueExists
              \/ /\ analysis.none
                 /\ analysis.message \in IF fn = "analyze_necesidades"
                                         THEN {NoValidData, NoValidTokens}
                                         ELSE {TipoNoValidData}

---------------------------------------------------------------------------
(* Row filters *)

SidebarRan == kind = "frame" /\ fn = "create_filters_sidebar"
FilterDictRan == kind = "frame" /\ fn = "filter_dataframe"

\* the selections made other than 'Todos'/'Todas', as [column, value]: those
\* of the sidebar's selectboxes, or the entries of the dict for the columns
\* of the table (an empty text selects nothing)
Chosen ==
    IF SidebarRan
    THEN {[column |-> selections[i].column, value |-> selections[i].selected] :
             i \in {j \in 1..Len(selections) : selections[j].selected \notin {Todos, Todas}}}
    ELSE {[column |-> filters[i].column, value |-> filters[i].value] :
             i \in {j \in 1..Len(filters) :
                      /\ filters[j].value \notin {Todos, Todas, <<>>}
                      /\ HasColumn(dataframe, filters[j].column)}}

CellAt(r, column) == ColumnOf(dataframe, column)[r]

Rows(index) == {index[k] : k \in 1..Len(index)}

\* C22: the filtered table is made of the original rows, in the original
\* order and with their cells, that equal every selection other than
\* 'Todos'/'Todas' in the selected column: a row equal to every selection is
\* kept, a row kept has the string form of every selection, and with no
\* such selection the filtered table is the original
C22_FilterKeepsMatchingRows ==
    (SidebarRan \/ FilterDictRan) /\ ~dataframe.none =>
        /\ \A k \in 1..Len(df_filtered.index) :
              /\ df_filtered.index[k] \in 1..RowsOf(dataframe)
              /\ k > 1 => df_filtered.index[k - 1] < df_filtered.index[k]
        /\ df_filtered = Take(dataframe, df_filtered.index)
        /\ \A r \in 1..RowsOf(dataframe) :
              (\A s \in Chosen : CellAt(r, s.column) = s.value)
                  => r \in Rows(df_filtered.index)
        /\ \A r \in Rows(df_filtered.index) :
              \A s \in Chosen : /\ CellAt(r, s.column) # NaN
                                /\ str(CellAt(r, s.column)) = str(s.value)
        /\ Chosen = {} => df_filtered.columns = dataframe.columns

---------------------------------------------------------------------------
(* The multi-value counting of utils/data_analysis.py *)

MentionsRan ==
    kind = "cells" /\ fn \in {"analyze_population_focus", "analyze_needs_and_problems"}

ValidToken(token) == token # <<>> /\ lower(token) \notin {<<"nan">>, <<"none">>}

\* C23: the mentions counted by analyze_population_focus and
\* analyze_needs_and_problems are non-empty trimmed tokens that are not
\* null-equivalent: so are the labels of the counts, and 'total_menciones'
\* is the number of such tokens in the column
C23_MentionsAreValidTokens ==
    MentionsRan =>
        /\ \A i \in 1..Len(analysis.counts) : ValidToken(analysis.counts[i].name)
        /\ analysis.total_menciones =
              Len(SelectSeq(ExtendMentions(dropna(series.values)), ValidToken))

---------------------------------------------------------------------------
(* The parser of the bar-chart page (comma, semicolon and newline) *)

MultiAnswerRan ==
    /\ kind = "rows" /\ fn = "clean_and_process_data" /\ series.values # <<>>
    /\ \/ Contains(upper(series.name), <<"TEMAS">>)
       \/ Contains(upper(series.name), <<"ACTIVIDADES">>)

\* every non-empty trimmed piece of the cells that are not null, empty or
\* null-equivalent, in order
RECURSIVE EveryPiece(_)
EveryPiece(values) ==
    IF values = <<>> THEN <<>>
    ELSE LET response == CleanCell(Head(values))
             pieces == split(response, {",", ";", "\n"})
             items == [i \in 1..Len(pieces) |-> strip(pieces[i])]
         IN  (IF response = SIN_RESPUESTA THEN <<>>
              ELSE SelectSeq(items, LAMBDA item : item # <<>>))
             \o EveryPiece(Tail(values))

\* C24: on a TEMAS / ACTIVIDADES column, a null, empty or null-equivalent
\* cell contributes no token and every non-empty trimmed piece of the other
\* cells is a token, whatever its length
C24_EveryPieceKept ==
    MultiAnswerRan => cleaned = EveryPiece(series.values)

---------------------------------------------------------------------------
(* The blocks of the waffle *)

WaffleRan == fn = "create_waffle_chart" /\ ~waffle.none

\* C25: the block values handed to the 10 x 10 waffle add up to at most 100,
\* and to exactly 100 whenever the 'Otras combinaciones' remainder is appended
C25_BlocksFitGrid ==
    WaffleRan =>
        /\ SumSeq(waffle.values) <= GridBlocks
        /\ Len(waffle.values) > Len(waffle.combinations)
              => SumSeq(waffle.values) = GridBlocks

---------------------------------------------------------------------------
(* The logical keys *)

CruceSelected == kind = "schema" /\ page = "CRUCE" /\ fn = "get_available_columns"

\* C26: the keys get_available_columns offers resolve to pairwise distinct
\* columns, so the two keys selected denote two different columns, and with
\* fewer than two keys no cross-tabulation is computed
C26_KeysDenoteDistinctColumns ==
    CruceSelected =>
        /\ \A i, j \in 1..Len(available_columns) :
              i # j => available_columns[i].column # available_columns[j].column
        /\ variables.crossed => variables.var1_col # variables.var2_col
        /\ Len(available_columns) < 2 => ~variables.crossed

SankeyKeysRan == kind = "schema" /\ page = "SANKEY" /\ fn = "get_available_columns"

\* C27: in the bar-chart page, the column the key 'sector_articulacion' maps
\* to holds 'De qué sector' in its name, case ignored
C27_SectorKeyMatchesFragment ==
    SankeyKeysRan =>
        \A i \in 1..Len(available_columns) :
            available_columns[i].key = "sector_articulacion"
                => Contains(lower(available_columns[i].column), lower(DE_QUE_SECTOR))


\* the form of a cell a selectbox offers and compares: the cell itself, or
\* its str()
Offered(selection, r) ==
    IF selection.raw THEN CellAt(r, selection.column) ELSE str(CellAt(r, selection.column))

\* C28: every option a sidebar selectbox offers besides 'Todos'/'Todas' is
\* the value of its column in a row that survived the selections made before
\* it, and whatever is selected from the options offered, the filtered table
\* of a table with rows has rows
C28_OptionsFromSurvivingRows ==
    SidebarRan =>
        /\ \A i \in 1..Len(selections) :
              \A option \in selections[i].options :
                 \E r \in Rows(selections[i].before) :
                    /\ CellAt(r, selections[i].column) # NaN
                    /\ Offered(selections[i], r) = option
        /\ RowsOf(dataframe) > 0 => df_filtered.index # <<>>

\* two selectboxes were shown, the first selection dropped a row and the
\* second selected a value too
C28_Witness ==
    /\ SidebarRan
    /\ Len(selections) = 2
    /\ selections[1].selected # selections[1].all
    /\ selections[2].selected # selections[2].all
    /\ Len(selections[2].before) < RowsOf(dataframe)
    /\ df_filtered.index # <<>>


DisplaysRan == kind = "counts" /\ fn = "displays"

\* how each display shows a tier of the page
TierMarker(t) ==
    IF page = "NECESIDADES"
    THEN CASE t = "high" -> "red" [] t = "medium" -> "yellow" [] OTHER -> "white"
    ELSE CASE t = "critical" -> "red" [] t = "high" -> "orange"
           [] t = "medium" -> "yellow" [] OTHER -> "white"

TierLabel(t) ==
    CASE t = "critical" -> "Critica" [] t = "high" -> "Alta"
      [] t = "medium" -> "Media" [] OTHER -> "Baja"

TierColour(t) ==
    IF page = "NECESIDADES"
    THEN CASE t = "high" -> "#F44336" [] t = "medium" -> "#FF9800" [] OTHER -> "#FFC107"
    ELSE CASE t = "critical" -> "#D32F2F" [] t = "high" -> "#F57C00"
           [] t = "medium" -> "#FBC02D" [] OTHER -> "#9E9E9E"

\* the bars of the chart that are categories of the series: those before the
\* appended 'Otros' bar
CategoryBars ==
    1..Len(head(counts, IF page = "NECESIDADES" THEN NecesidadesTopN ELSE ProblematicasTopN))

\* C29: the displays of a category's tier agree: the tier categorize_* gives
\* a category is the one of its row in the summary table, of its marker in
\* the analysis text and of the colour of its bar (the appended 'Otros' bar
\* aside), and the total of the mentions a page run divides by is the sum of
\* the counts
C29_TierDisplaysAgree ==
    /\ DisplaysRan =>
          \A i \in 1..Len(counts) : \A t \in DOMAIN tiers :
             counts[i] \in tiers[t] =>
                /\ priorities[i] = TierLabel(t)
                /\ i <= Len(markers) => markers[i] = TierMarker(t)
                /\ i \in CategoryBars => colors[i] = TierColour(t)
    /\ (kind = "cells" /\ fn = "main" /\ outcome = "rendered")
          => Over("total_menciones", sum(counts)) \in divisors


HubRan == kind = "hub" /\ fn = "main"

\* C30: in the hub, the k-th dashboard of the session has id k (so the ids
\* are pairwise distinct), and a run of the page leaves the stored list as
\* it was, entries and order, except that a submitted form with a title, a
\* description and a URL appends one dashboard made of the form's fields
C30_HubListGrowsById ==
    /\ [](kind = "hub" => \A k \in 1..Len(dashboards) : dashboards[k].id = k)
    /\ [][kind = "hub" =>
            IF submission'.submitted /\ submission'.titulo # <<>>
               /\ submission'.descripcion # <<>> /\ submission'.url # <<>>
            THEN /\ Len(dashboards') = Len(dashboards) + 1
                 /\ SubSeq(dashboards', 1, Len(dashboards)) = dashboards
                 /\ dashboards'[Len(dashboards')].titulo = submission'.titulo
                 /\ dashboards'[Len(dashboards')].descripcion = submission'.descripcion
                 /\ dashboards'[Len(dashboards')].url = submission'.url
            ELSE dashboards' = dashboards]_vars

\* two dashboards were added, the last form was rejected for its empty
\* title, and the listing shows the stored dashboards in another order
C30_Witness ==
    /\ HubRan
    /\ Len(dashboards) = Len(InitialDashboards) + 2
    /\ submission.submitted /\ submission.titulo = <<>> /\ submission.url # <<>>
    /\ Len(filtered_dashboards) = Len(dashboards)
    /\ filtered_dashboards # dashboards

====
